---- MODULE Spec2Model ----
(***************************************************************************)
(* Integer bit-packing codecs of lance-encoding (bitpack.rs): the          *)
(* bit-width analyzers, the bit-granular packer/unpacker and the chunked   *)
(* non-negative codec with its range planner.                              *)
(*                                                                         *)
(* Integers wider than 31 bits do not fit the model checker's integers,    *)
(* so a W-bit value is kept the way the code's byte buffers keep it: as    *)
(* its W/8 little-endian bytes.  A mask of the form 2^k - 1 is kept as k.  *)
(***************************************************************************)
EXTENDS Integers, Naturals, Sequences, FiniteSets, TLC

VARIABLES pc, input, params, encoded, buffer_index, request, decoder, output, storage

vars == <<pc, input, params, encoded, buffer_index, request, decoder, output, storage>>

\* Option::None of a record-valued option
None == [none |-> TRUE]

\* a null array slot, and Option::None of a value-valued option
Null == <<>>

\* Option<u64>: None, Some(n)
NoBits == [some |-> FALSE, bits |-> 0]

SomeBits(n) == [some |-> TRUE, bits |-> n]

(***************************************************************************)
(* Bounds of the model.                                                    *)
(***************************************************************************)
\* longest array handed to the bit-width analyzers
MaxParamLen == 3

\* longest array handed to the bit-granular encoder
MaxPackLen == 2

\* rows of a bit-granular page that is read back
PageRows == 9

\* longest row range asked of a bit-granular page
MaxRangeLen == 2

\* most row ranges in one request to a bit-granular page
MaxRanges == 2

\* most full chunks in an array handed to the chunked encoder
MaxChunks == 2

\* most row ranges in one request to a chunked page
MaxChunkedRanges == 2
MaxBatches == 3

(***************************************************************************)
(* Bit and byte arithmetic.                                                *)
(***************************************************************************)
PowTab ==
    << 1, 2, 4, 8, 16, 32, 64, 128, 256, 512, 1024, 2048, 4096, 8192, 16384,
       32768, 65536 >>

\* 1 << n, for n in 0..16
Pow2(n) == PowTab[n + 1]

Min(a, b) == IF a < b THEN a ELSE b

Max(a, b) == IF a < b THEN b ELSE a

\* arrow_buffer::bit_util::ceil
Ceil(a, b) == (a + b - 1) \div b

\* bit i (0 = least significant) of a little-endian byte sequence
BitOf(v, i) == (v[(i \div 8) + 1] \div Pow2(i % 8)) % 2

\* the W-bit value whose set bits are exactly S, as W/8 little-endian bytes
RECURSIVE ByteOfBits(_, _, _)
ByteOfBits(S, base, i) ==
    IF i = 8 THEN 0
    ELSE (IF (base + i) \in S THEN Pow2(i) ELSE 0) + ByteOfBits(S, base, i + 1)

FromBits(S, W) == [j \in 1..(W \div 8) |-> ByteOfBits(S, 8 * (j - 1), 0)]

\* PrimInt::leading_zeros on a W-bit value: the zero bits above the highest
\* set bit, counted from bit W - 1 - n down
RECURSIVE LeadingFrom(_, _, _, _)
LeadingFrom(v, W, bit, n) ==
    IF n = W \/ BitOf(v, W - 1 - n) # bit THEN n
    ELSE LeadingFrom(v, W, bit, n + 1)

LeadingZeros(v, W) == LeadingFrom(v, W, 0, 0)

\* PrimInt::leading_ones
LeadingOnes(v, W) == LeadingFrom(v, W, 1, 0)

\* val.to_i64() < 0 for a signed W-bit value
IsNegative(v, W) == BitOf(v, W - 1) = 1

\* a | b on bytes
RECURSIVE Or8(_, _, _)
Or8(a, b, i) ==
    IF i = 8 THEN 0
    ELSE (IF (a \div Pow2(i)) % 2 = 1 \/ (b \div Pow2(i)) % 2 = 1 THEN Pow2(i) ELSE 0)
         + Or8(a, b, i + 1)

BitOrValue(a, b, W) == [j \in 1..(W \div 8) |-> Or8(a[j], b[j], 0)]

(***************************************************************************)
(* Bit-width analyzers.  An array is [W, signed_type, values], values a    *)
(* sequence whose elements are Null or a W-bit value.                      *)
(***************************************************************************)
NonNull(values) == SelectSeq(values, LAMBDA x : x # Null)

\* arrow::compute::bit_or: None when there is no non-null value
RECURSIVE BitOrFrom(_, _, _, _)
BitOrFrom(vals, i, acc, W) ==
    IF i > Len(vals) THEN acc
    ELSE BitOrFrom(vals, i + 1, BitOrValue(acc, vals[i], W), W)

bit_or(arr) ==
    IF NonNull(arr.values) = <<>> THEN Null
    ELSE BitOrFrom(NonNull(arr.values), 1, FromBits({}, arr.W), arr.W)

\* bitpack_params_for_type without the floor at one bit
bitpack_params_for_type_no_floor(arr) ==
    LET max == bit_or(arr) IN
    IF max = Null THEN None
    ELSE [num_bits |-> arr.W - LeadingZeros(max, arr.W), signed |-> FALSE]

bitpack_params_for_type(arr) ==
    LET max == bit_or(arr) IN
    IF max = Null THEN None
    ELSE [num_bits |-> Max(arr.W - LeadingZeros(max, arr.W), 1), signed |-> FALSE]

\* MinLeading that keeps the first count instead of the minimum
MinLeadingFirst(min_leading_bits, n) ==
    IF min_leading_bits.some THEN min_leading_bits ELSE SomeBits(n)

\* Option::map(|bits| bits.min(n)) on min_leading_bits, which the loop has
\* set to Some(u64::MAX) before the first non-null value: the minimum of
\* u64::MAX and a leading-bit count is the count
MinLeading(min_leading_bits, n) ==
    IF min_leading_bits.some THEN SomeBits(Min(min_leading_bits.bits, n))
    ELSE SomeBits(n)

\* the loop of bitpack_params_for_signed_type
RECURSIVE SignedScan(_, _, _, _)
SignedScan(arr, i, min_leading_bits, add_signed_bit) ==
    IF i > Len(arr.values)
    THEN [min_leading_bits |-> min_leading_bits, add_signed_bit |-> add_signed_bit]
    ELSE LET val == arr.values[i] IN
         IF val = Null THEN SignedScan(arr, i + 1, min_leading_bits, add_signed_bit)
         ELSE IF IsNegative(val, arr.W)
              THEN SignedScan(arr, i + 1,
                              MinLeading(min_leading_bits, LeadingOnes(val, arr.W)), TRUE)
              ELSE SignedScan(arr, i + 1,
                              MinLeading(min_leading_bits, LeadingZeros(val, arr.W)),
                              add_signed_bit)

\* bitpack_params_for_signed_type that never adds the sign bit
bitpack_params_for_signed_type_no_sign_bit(arr) ==
    LET s == SignedScan(arr, 1, NoBits, FALSE) IN
    IF ~s.min_leading_bits.some THEN None
    ELSE [num_bits |-> Max(arr.W - s.min_leading_bits.bits, 1),
          signed |-> s.add_signed_bit]

\* bitpack_params_for_signed_type that adds the sign bit to every signed array
bitpack_params_for_signed_type_always_sign_bit(arr) ==
    LET s == SignedScan(arr, 1, NoBits, FALSE) IN
    IF ~s.min_leading_bits.some THEN None
    ELSE [num_bits |-> Max((arr.W - s.min_leading_bits.bits) + 1, 1), signed |-> TRUE]

bitpack_params_for_signed_type(arr) ==
    LET s == SignedScan(arr, 1, NoBits, FALSE) IN
    IF ~s.min_leading_bits.some THEN None
    ELSE LET min_leading_bits ==
                 (arr.W - s.min_leading_bits.bits) + (IF s.add_signed_bit THEN 1 ELSE 0)
         IN [num_bits |-> Max(min_leading_bits, 1), signed |-> s.add_signed_bit]

bitpack_params(arr) ==
    IF arr.signed_type THEN bitpack_params_for_signed_type(arr)
    ELSE bitpack_params_for_type(arr)

(***************************************************************************)
(* Byte arithmetic of the bit-granular codec.  Buffers are sequences of    *)
(* bytes, indexed from 0 as in the code.                                   *)
(***************************************************************************)
At(buf, i) == buf[i + 1]

Put(buf, i, x) == [buf EXCEPT ![i + 1] = x]

Zeros(n) == [j \in 1..n |-> 0]

\* (x >> n) on a u8
Shr8(x, n) == x \div Pow2(n)

\* (x << n) on a u8: the bits shifted past bit 7 are dropped
Shl8(x, n) == (x * Pow2(n)) % 256

\* x & (m as u8), m a mask of k low ones (u64::MAX >> (64 - k), shifted
\* right since): the low min(k, 8) bits of x
AndMask8(x, k) == x % Pow2(Min(k, 8))

\* x & ((m << off) as u8), m a mask of k low ones: bits off .. off+k-1 of x
\* that lie in the byte
AndShiftedMask8(x, k, off) ==
    (Shr8(x, off) % Pow2(Min(k, 8 - off))) * Pow2(off)

\* x | (1 << n) on a u8
SetBit8(x, n) == IF (x \div Pow2(n)) % 2 = 1 THEN x ELSE x + Pow2(n)

\* u8 += : wraps (a release build); the codec never carries out of a byte
Add8(x, y) == (x + y) % 256

(***************************************************************************)
(* Bit-granular packer: pack_bits and BitpackedArrayEncoder::encode.       *)
(***************************************************************************)
\* the `while src_bits_written < num_bits` loop of pack_bits; st holds the
\* locals and the dst cursor
RECURSIVE PackValue(_, _, _)
PackValue(src, num_bits, st) ==
    IF st.src_bits_written >= num_bits THEN st
    ELSE IF st.dst_idx >= Len(st.dst) THEN [st EXCEPT !.panic = TRUE]
    ELSE
    LET bits_written == Min(Min(num_bits - st.src_bits_written, 8 - st.src_offset),
                            8 - st.dst_offset)
        dst1 == Put(st.dst, st.dst_idx,
                    Add8(At(st.dst, st.dst_idx),
                         Shl8(Shr8(st.curr_src, st.src_offset), st.dst_offset)))
        dst_full == st.dst_offset + bits_written = 8
        src_full == st.src_offset + bits_written = 8
        s1 == [st EXCEPT !.dst = dst1,
                         !.src_bits_written = @ + bits_written,
                         !.dst_offset = IF dst_full THEN 0 ELSE @ + bits_written,
                         !.dst_idx = IF dst_full THEN @ + 1 ELSE @,
                         !.src_offset = IF src_full THEN 0 ELSE @ + bits_written,
                         !.src_idx = IF src_full THEN @ + 1 ELSE @,
                         !.curr_mask = IF src_full THEN Max(@ - 8, 0) ELSE @]
    IN IF src_full /\ s1.src_idx = Len(src) THEN s1
       ELSE IF src_full
            THEN PackValue(src, num_bits,
                           [s1 EXCEPT !.curr_src = AndMask8(At(src, s1.src_idx),
                                                            s1.curr_mask)])
            ELSE PackValue(src, num_bits, s1)

\* the stride that takes src_idx past the bytes of the value not packed
\* (lines 800-811)
PackAdvance(src, num_bits, src_idx) ==
    IF Len(src) * 8 # num_bits
    THEN src_idx + Len(src) - Ceil(num_bits, 8) + (IF num_bits % 8 = 0 THEN 0 ELSE 1)
    ELSE src_idx

\* the `while src_idx < src.len()` loop of pack_bits
RECURSIVE PackLoop(_, _, _, _)
PackLoop(src, num_bits, src_idx, out) ==
    IF src_idx >= Len(src) \/ out.panic THEN out
    ELSE LET st == PackValue(src, num_bits,
                       [dst |-> out.dst, dst_idx |-> out.dst_idx,
                        dst_offset |-> out.dst_offset, panic |-> FALSE,
                        src_idx |-> src_idx, src_offset |-> 0,
                        curr_mask |-> num_bits,
                        curr_src |-> AndMask8(At(src, src_idx), num_bits),
                        src_bits_written |-> 0])
         IN PackLoop(src, num_bits, PackAdvance(src, num_bits, st.src_idx),
                     [dst |-> st.dst, dst_idx |-> st.dst_idx,
                      dst_offset |-> st.dst_offset, panic |-> st.panic,
                      src_cursors |-> Append(out.src_cursors,
                                             PackAdvance(src, num_bits, st.src_idx))])

\* src_cursors records src_idx after each pass of the outer loop
pack_bits(src, num_bits, dst) ==
    PackLoop(src, num_bits, 0,
             [dst |-> dst, dst_idx |-> 0, dst_offset |-> 0, panic |-> FALSE,
              src_cursors |-> <<>>])

\* BitpackedArrayEncoder::encode on a block [kind, data, bits_per_value,
\* num_values]; the result is the packed block with its descriptor, or the
\* InvalidInput error
BitpackedArrayEncoder_encode(self, data, index) ==
    IF data.kind # "FixedWidth" THEN [err |-> "InvalidInput"]
    ELSE LET dst_bytes_total == Ceil(data.num_values * self.num_bits, 8)
             packed == pack_bits(data.data, self.num_bits, Zeros(dst_bytes_total))
         IN [err |-> IF packed.panic THEN "panic" ELSE "",
             data |-> packed.dst,
             bits_per_value |-> self.num_bits,
             num_values |-> data.num_values,
             src_cursors |-> packed.src_cursors,
             encoding |-> [compressed_bits_per_value |-> self.num_bits,
                           uncompressed_bits_per_value |-> data.bits_per_value,
                           buffer_index |-> index,
                           signed |-> self.signed_type]]

(***************************************************************************)
(* Bit-granular scheduler and unpacker.                                    *)
(***************************************************************************)
\* the byte range and bit offsets BitpackedScheduler::schedule_ranges
\* computes for one row range (the closure of lines 854-876)
ByteRangeOf(self, range) ==
    LET start_byte_offset == (range.start * self.bits_per_value) \div 8
        end_bits == range.end * self.bits_per_value
        end_byte_offset == (end_bits \div 8) + (IF end_bits % 8 # 0 THEN 1 ELSE 0)
    IN [start |-> self.buffer_offset + start_byte_offset,
        end |-> self.buffer_offset + end_byte_offset,
        bit_start |-> (range.start * self.bits_per_value) % 8,
        bit_end |-> IF end_bits % 8 # 0 THEN SomeBits(end_bits % 8) ELSE NoBits]

\* EncodingsIo::submit_request: the bytes of the file at each byte range
FetchBytes(file, byte_ranges) ==
    [i \in 1..Len(byte_ranges) |->
        SubSeq(file, byte_ranges[i].start + 1, byte_ranges[i].end)]

\* the page decoder BitpackedScheduler::schedule_ranges resolves to
BitpackedScheduler_schedule_ranges(self, ranges, file) ==
    LET brs == [i \in 1..Len(ranges) |-> ByteRangeOf(self, ranges[i])] IN
    [buffer_bit_start_offsets |-> [i \in 1..Len(ranges) |-> brs[i].bit_start],
     buffer_bit_end_offsets |-> [i \in 1..Len(ranges) |-> brs[i].bit_end],
     bits_per_value |-> self.bits_per_value,
     uncompressed_bits_per_value |-> self.uncompressed_bits_per_value,
     signed |-> self.signed,
     byte_ranges |-> [i \in 1..Len(ranges) |-> [start |-> brs[i].start,
                                                 end |-> brs[i].end]],
     data |-> FetchBytes(file, brs)]

\* rows_in_buffer without the bits after the end bit offset taken off
rows_in_buffer_to_last_byte(buffer_len, bits_per_value, buffer_start_bit_offset, buffer_end_bit_offset) ==
    (buffer_len * 8 - buffer_start_bit_offset) \div bits_per_value

rows_in_buffer(buffer_len, bits_per_value, buffer_start_bit_offset, buffer_end_bit_offset) ==
    LET bits_in_buffer ==
            (buffer_len * 8 - buffer_start_bit_offset)
            - (IF buffer_end_bit_offset.some THEN 8 - buffer_end_bit_offset.bits ELSE 0)
    IN bits_in_buffer \div bits_per_value

compute_start_offset(rows_to_skip, buffer_len, bits_per_value, buffer_start_bit_offset, buffer_end_bit_offset) ==
    LET rows == rows_in_buffer(buffer_len, bits_per_value, buffer_start_bit_offset,
                               buffer_end_bit_offset)
        start_bit == rows_to_skip * bits_per_value + buffer_start_bit_offset
    IN IF rows_to_skip >= rows THEN [skip |-> "Full", rows |-> rows]
       ELSE [skip |-> "Some", index |-> start_bit \div 8, bit_offset |-> start_bit % 8]

\* the index of the byte holding the item's top bit, and that bit's place
SignBitPlace(src_idx, src_offset, num_bits) ==
    IF (src_offset + num_bits) % 8 = 0
    THEN [byte |-> src_idx + ((src_offset + num_bits) \div 8) - 1, shift |-> 7]
    ELSE [byte |-> src_idx + ((src_offset + num_bits) \div 8),
          shift |-> ((src_offset + num_bits) % 8) - 1]

is_encoded_item_negative(src, src_idx, src_offset, num_bits) ==
    LET place == SignBitPlace(src_idx, src_offset, num_bits) IN
    (At(src, place.byte) \div Pow2(place.shift)) % 2 = 1

\* `dest[dst_idx] |= 1 << dst_offset` for dst_offset .. 7 (lines 1014-1017)
RECURSIVE PadOnes(_, _)
PadOnes(byte, dst_offset) ==
    IF dst_offset >= 8 THEN byte
    ELSE PadOnes(SetBit8(byte, dst_offset), dst_offset + 1)

\* lines 1036-1044 of decode without the fill of the bytes that follow the
\* current one
SignExtendCurrentByteOnly(self, st, is_negative) ==
    LET pad == self.signed /\ is_negative /\ st.dst_offset > 0
        dest1 == IF pad
                 THEN Put(st.dest, st.dst_idx,
                          PadOnes(At(st.dest, st.dst_idx), st.dst_offset))
                 ELSE st.dest
        next_dst_idx == st.dst_idx + (self.uncompressed_bits_per_value \div 8)
                        - Ceil(self.bits_per_value, 8)
                        + (IF self.bits_per_value % 8 = 0 THEN 0 ELSE 1)
    IN IF self.uncompressed_bits_per_value = self.bits_per_value
       THEN [st EXCEPT !.dest = dest1]
       ELSE [st EXCEPT !.dest = dest1, !.dst_idx = next_dst_idx]

\* the `while src_bits_written < self.bits_per_value` loop of decode
RECURSIVE UnpackValue(_, _, _)
UnpackValue(src, bits_per_value, st) ==
    IF st.src_bits_written >= bits_per_value THEN st
    ELSE IF st.dst_idx >= Len(st.dest) THEN [st EXCEPT !.panic = TRUE]
    ELSE
    LET bits_written ==
            Min(Min(bits_per_value - st.src_bits_written, 8 - st.src_offset),
                8 - st.dst_offset)
        dest1 == Put(st.dest, st.dst_idx,
                     Add8(At(st.dest, st.dst_idx),
                          Shl8(Shr8(st.curr_src, st.src_offset), st.dst_offset)))
        dst_full == st.dst_offset + bits_written = 8
        src_full == st.src_offset + bits_written = 8
        s1 == [st EXCEPT !.dest = dest1,
                         !.src_bits_written = @ + bits_written,
                         !.dst_offset = IF dst_full THEN 0 ELSE @ + bits_written,
                         !.dst_idx = IF dst_full THEN @ + 1 ELSE @,
                         !.src_offset = IF src_full THEN 0 ELSE @ + bits_written,
                         !.src_idx = IF src_full THEN @ + 1 ELSE @,
                         !.curr_mask = Max(@ - bits_written, 0)]
    IN IF src_full /\ s1.src_idx = Len(src) THEN s1
       ELSE IF src_full
            THEN UnpackValue(src, bits_per_value,
                             [s1 EXCEPT !.curr_src = AndMask8(At(src, s1.src_idx),
                                                              s1.curr_mask)])
            ELSE UnpackValue(src, bits_per_value, s1)

\* lines 1010-1047 of decode with to_next_byte left at 1 for every width:
\* a byte-aligned value moves dst_idx one byte too far
SignExtendAndSkipByte(self, st, is_negative) ==
    LET pad == self.signed /\ is_negative /\ st.dst_offset > 0
        dest1 == IF pad /\ st.dst_idx < Len(st.dest)
                 THEN Put(st.dest, st.dst_idx,
                          PadOnes(At(st.dest, st.dst_idx), st.dst_offset))
                 ELSE st.dest
        byte_len == self.uncompressed_bits_per_value \div 8
        next_dst_idx == st.dst_idx + byte_len - Ceil(self.bits_per_value, 8) + 1
        dest2 == IF self.signed /\ is_negative
                 THEN [j \in 1..Len(dest1) |->
                          IF j - 1 = st.dst_idx /\ ~pad THEN 255
                          ELSE IF j - 1 > st.dst_idx /\ j - 1 < next_dst_idx THEN 255
                          ELSE dest1[j]]
                 ELSE dest1
    IN IF pad /\ st.dst_idx >= Len(st.dest) THEN [st EXCEPT !.panic = TRUE]
       ELSE IF self.uncompressed_bits_per_value = self.bits_per_value
            THEN [st EXCEPT !.dest = dest1]
       ELSE IF self.signed /\ is_negative /\ ~pad /\ st.dst_idx >= Len(st.dest)
            THEN [st EXCEPT !.panic = TRUE]
       ELSE [st EXCEPT !.dest = dest2, !.dst_idx = next_dst_idx]

\* lines 1010-1047 of decode: sign padding and the move of dst_idx to the
\* next value
SignExtendAndAdvance(self, st, is_negative) ==
    LET pad == self.signed /\ is_negative /\ st.dst_offset > 0
        dest1 == IF pad /\ st.dst_idx < Len(st.dest)
                 THEN Put(st.dest, st.dst_idx,
                          PadOnes(At(st.dest, st.dst_idx), st.dst_offset))
                 ELSE st.dest
        byte_len == self.uncompressed_bits_per_value \div 8
        next_dst_idx == st.dst_idx + byte_len - Ceil(self.bits_per_value, 8)
                        + (IF self.bits_per_value % 8 = 0 THEN 0 ELSE 1)
        dest2 == IF self.signed /\ is_negative
                 THEN [j \in 1..Len(dest1) |->
                          IF j - 1 = st.dst_idx /\ ~pad THEN 255
                          ELSE IF j - 1 > st.dst_idx /\ j - 1 < next_dst_idx THEN 255
                          ELSE dest1[j]]
                 ELSE dest1
    IN IF pad /\ st.dst_idx >= Len(st.dest) THEN [st EXCEPT !.panic = TRUE]
       ELSE IF self.uncompressed_bits_per_value = self.bits_per_value
            THEN [st EXCEPT !.dest = dest1]
       ELSE IF self.signed /\ is_negative /\ ~pad /\ st.dst_idx >= Len(st.dest)
            THEN [st EXCEPT !.panic = TRUE]
       ELSE [st EXCEPT !.dest = dest2, !.dst_idx = next_dst_idx]

\* the `while src_idx < src.len() && rows_taken < num_rows` loop of decode
\* over buffer i; st holds dest, dst_idx, rows_taken and the src cursor
RECURSIVE UnpackRows(_, _, _, _)
UnpackRows(self, i, num_rows, st) ==
    LET src == self.data[i]
        place == SignBitPlace(st.src_idx, st.src_offset, self.bits_per_value)
    IN
    IF st.panic \/ st.src_idx >= Len(src) \/ st.rows_taken >= num_rows THEN st
    ELSE IF place.byte >= Len(src) THEN [st EXCEPT !.panic = TRUE]
    ELSE
    LET is_negative == is_encoded_item_negative(src, st.src_idx, st.src_offset,
                                                self.bits_per_value)
        v == UnpackValue(src, self.bits_per_value,
                [dest |-> st.dest, dst_idx |-> st.dst_idx, dst_offset |-> 0,
                 src_idx |-> st.src_idx, src_offset |-> st.src_offset,
                 curr_mask |-> self.bits_per_value,
                 curr_src |-> AndShiftedMask8(At(src, st.src_idx), self.bits_per_value,
                                              st.src_offset),
                 src_bits_written |-> 0, panic |-> FALSE])
        w == IF v.panic THEN v ELSE SignExtendAndAdvance(self, v, is_negative)
        s1 == [dest |-> w.dest, dst_idx |-> w.dst_idx, rows_taken |-> st.rows_taken + 1,
               src_idx |-> w.src_idx, src_offset |-> w.src_offset, panic |-> w.panic,
               dst_cursors |-> Append(st.dst_cursors, w.dst_idx),
               src_places |-> Append(st.src_places,
                                     [buffer |-> i, index |-> st.src_idx,
                                      bit_offset |-> st.src_offset])]
        end == self.buffer_bit_end_offsets[i]
    IN IF end.some /\ s1.src_idx = Len(src) - 1 /\ s1.src_offset >= end.bits THEN s1
       ELSE UnpackRows(self, i, num_rows, s1)

\* the `for i in 0..self.data.len()` loop of decode
RECURSIVE UnpackBuffers(_, _, _, _, _)
UnpackBuffers(self, i, rows_to_skip, num_rows, st) ==
    IF i > Len(self.data) \/ st.panic THEN st
    ELSE LET start == compute_start_offset(rows_to_skip, Len(self.data[i]),
                                           self.bits_per_value,
                                           self.buffer_bit_start_offsets[i],
                                           self.buffer_bit_end_offsets[i])
         IN IF start.skip = "Full"
            THEN UnpackBuffers(self, i + 1, rows_to_skip - start.rows, num_rows, st)
            ELSE UnpackBuffers(self, i + 1, rows_to_skip, num_rows,
                     UnpackRows(self, i, num_rows,
                                [st EXCEPT !.src_idx = start.index,
                                           !.src_offset = start.bit_offset]))

\* BitpackedPageDecoder::decode; dst_cursors records dst_idx after each row
\* and src_places the buffer, byte and bit each row was read from
BitpackedPageDecoder_decode(self, rows_to_skip, num_rows) ==
    LET num_bytes == (self.uncompressed_bits_per_value \div 8) * num_rows
        st == UnpackBuffers(self, 1, rows_to_skip, num_rows,
                  [dest |-> Zeros(num_bytes), dst_idx |-> 0, rows_taken |-> 0,
                   src_idx |-> 0, src_offset |-> 0, panic |-> FALSE,
                   dst_cursors |-> <<>>, src_places |-> <<>>])
    IN [err |-> IF st.panic THEN "panic" ELSE "",
        data |-> st.dest,
        bits_per_value |-> self.uncompressed_bits_per_value,
        num_values |-> num_rows,
        rows_taken |-> st.rows_taken,
        dst_cursors |-> st.dst_cursors,
        src_places |-> st.src_places]

(***************************************************************************)
(* Chunked non-negative codec.  The FastLanes kernels are taken as given:  *)
(* unchecked_pack writes 1024 values of compressed_bit_width bits into     *)
(* 1024 * compressed_bit_width / W words of W bits, and unchecked_unpack   *)
(* gives the 1024 values back.  A packed chunk is kept as the number of    *)
(* words it occupies and the values it unpacks to.  Values are integers    *)
(* below 2^16.                                                             *)
(***************************************************************************)
LOG_ELEMS_PER_CHUNK == 10

ELEMS_PER_CHUNK == Pow2(LOG_ELEMS_PER_CHUNK)

\* BitPacking::unchecked_pack: each value is stored in its low
\* compressed_bit_width bits
unchecked_pack(compressed_bit_width, chunk, packed_chunk_size) ==
    [words |-> packed_chunk_size,
     values |-> IF compressed_bit_width >= 16 THEN chunk
                ELSE [j \in 1..Len(chunk) |-> chunk[j] % Pow2(compressed_bit_width)]]

\* BitPacking::unchecked_unpack
unchecked_unpack(packed_chunk) == packed_chunk.values

\* ranges.iter().map(|range| range.end - range.start).sum()
RECURSIVE TotalRowsOf(_)
TotalRowsOf(ranges) ==
    IF ranges = <<>> THEN 0
    ELSE (Head(ranges).end - Head(ranges).start) + TotalRowsOf(Tail(ranges))

\* division that rounds down where u64::div_ceil rounds up
DivFloor(a, b) == a \div b

\* u64::div_ceil
DivCeil(a, b) == (a + b - 1) \div b

\* the last, partial chunk: the remaining values followed by zeros
LastChunk(input_values, num_values) ==
    LET last_chunk_elem_num == num_values % ELEMS_PER_CHUNK IN
    SubSeq(input_values, num_values - last_chunk_elem_num + 1, num_values)
    \o [j \in 1..(ELEMS_PER_CHUNK - last_chunk_elem_num) |-> 0]

\* encode_fixed_width!; W is the width of $data_type
encode_fixed_width(self, unpacked, W, index) ==
    LET num_chunks == DivCeil(unpacked.num_values, ELEMS_PER_CHUNK)
        num_full_chunks == unpacked.num_values \div ELEMS_PER_CHUNK
        packed_chunk_size == (1024 * self.compressed_bit_width) \div W
        full == [i \in 1..num_full_chunks |->
                    unchecked_pack(self.compressed_bit_width,
                                   SubSeq(unpacked.data, (i - 1) * ELEMS_PER_CHUNK + 1,
                                          i * ELEMS_PER_CHUNK),
                                   packed_chunk_size)]
        output_vec == IF num_chunks # num_full_chunks
                  THEN Append(full,
                              unchecked_pack(self.compressed_bit_width,
                                             LastChunk(unpacked.data, unpacked.num_values),
                                             packed_chunk_size))
                  ELSE full
    IN [err |-> "",
        kind |-> "FixedWidth",
        chunks |-> output_vec,
        num_bytes |-> Len(output_vec) * packed_chunk_size * (W \div 8),
        bits_per_value |-> self.compressed_bit_width,
        num_values |-> unpacked.num_values,
        encoding |-> [compressed_bit_width |-> self.compressed_bit_width,
                      uncompressed_bit_width |-> W,
                      buffer_index |-> index]]

\* BitpackedForNonNegArrayEncoder::encode on a FixedWidth block
BitpackedForNonNegArrayEncoder_encode(self, data, W, index) ==
    IF data.kind = "FixedWidth" THEN encode_fixed_width(self, data, W, index)
    ELSE [err |-> "InvalidInput"]

\* locate_chunk_start with the row scaled to bytes before the division: the
\* result is not aligned to a chunk
locate_chunk_start_unaligned(self, relative_row_num) ==
    LET chunk_size == (ELEMS_PER_CHUNK * self.compressed_bit_width) \div 8 IN
    self.buffer_offset + (relative_row_num * chunk_size) \div ELEMS_PER_CHUNK

locate_chunk_start(self, relative_row_num) ==
    LET chunk_size == (ELEMS_PER_CHUNK * self.compressed_bit_width) \div 8 IN
    self.buffer_offset + (relative_row_num \div ELEMS_PER_CHUNK) * chunk_size

\* locate_chunk_end without the size of the chunk itself
locate_chunk_end_exclusive(self, relative_row_num) ==
    LET chunk_size == (ELEMS_PER_CHUNK * self.compressed_bit_width) \div 8 IN
    self.buffer_offset + (relative_row_num \div ELEMS_PER_CHUNK) * chunk_size

\* locate_chunk_end as the byte after the row's own bits: the end is not
\* aligned to a chunk
locate_chunk_end_of_row(self, relative_row_num) ==
    self.buffer_offset + ((relative_row_num + 1) * self.compressed_bit_width + 7) \div 8

locate_chunk_end(self, relative_row_num) ==
    LET chunk_size == (ELEMS_PER_CHUNK * self.compressed_bit_width) \div 8 IN
    self.buffer_offset + (relative_row_num \div ELEMS_PER_CHUNK) * chunk_size + chunk_size

\* the loop of lines 410-426: plan holds byte_ranges and
\* bytes_idx_to_range_indices
RECURSIVE PlanRanges(_, _, _, _)
PlanRanges(self, ranges, i, plan) ==
    IF i > Len(ranges) THEN plan
    ELSE LET range == ranges[i]
             this_start == locate_chunk_start(self, range.start)
             this_end == locate_chunk_end(self, range.end - 1)
             last == Len(plan.byte_ranges)
         IN IF this_start = locate_chunk_start(self, ranges[i - 1].end - 1)
            THEN PlanRanges(self, ranges, i + 1,
                   [byte_ranges |->
                        [plan.byte_ranges EXCEPT ![last].end = this_end],
                    bytes_idx_to_range_indices |->
                        [plan.bytes_idx_to_range_indices EXCEPT
                            ![last] = Append(@, range)]])
            ELSE PlanRanges(self, ranges, i + 1,
                   [byte_ranges |->
                        Append(plan.byte_ranges, [start |-> this_start, end |-> this_end]),
                    bytes_idx_to_range_indices |->
                        Append(plan.bytes_idx_to_range_indices, <<range>>)])

\* the planner with line 408 left out: the first range is not recorded
BitpackedForNonNegScheduler_plan_first_unrecorded(self, ranges) ==
    LET plan == PlanRanges(self, ranges, 2,
                    [byte_ranges |->
                         << [start |-> locate_chunk_start(self, ranges[1].start),
                             end |-> locate_chunk_end(self, ranges[1].end - 1)] >>,
                     bytes_idx_to_range_indices |-> << <<>> >>])
    IN [byte_ranges |-> plan.byte_ranges,
        bytes_idx_to_range_indices |-> plan.bytes_idx_to_range_indices,
        num_rows |-> TotalRowsOf(ranges)]

\* the synchronous part of BitpackedForNonNegScheduler::schedule_ranges
\* (lines 397-440), ranges not empty
BitpackedForNonNegScheduler_plan(self, ranges) ==
    LET plan == PlanRanges(self, ranges, 2,
                    [byte_ranges |->
                         << [start |-> locate_chunk_start(self, ranges[1].start),
                             end |-> locate_chunk_end(self, ranges[1].end - 1)] >>,
                     bytes_idx_to_range_indices |-> << <<ranges[1]>> >>])
    IN [byte_ranges |-> plan.byte_ranges,
        bytes_idx_to_range_indices |-> plan.bytes_idx_to_range_indices,
        num_rows |-> TotalRowsOf(ranges)]

\* EncodingsIo::submit_request on the chunked page: for each byte range the
\* bytes of the file, kept as their count and the packed chunks they hold
FetchChunks(page, buffer_offset, chunk_size, byte_ranges) ==
    [i \in 1..Len(byte_ranges) |->
        [len |-> byte_ranges[i].end - byte_ranges[i].start,
         chunks |-> SubSeq(page.chunks,
                           ((byte_ranges[i].start - buffer_offset) \div chunk_size) + 1,
                           (byte_ranges[i].end - buffer_offset) \div chunk_size)]]

\* line 546 with the jump to the next range's start left out: decoding goes
\* on from the row the previous range reached
NextRangeStartStay(ranges, ranges_idx, reached) == reached

\* line 546: the start of the range the decoder moves on to
NextRangeStart(ranges, ranges_idx, reached) == At(ranges, ranges_idx).start

\* the inner `loop` of bitpacked_decode! over one unpacked chunk; st holds
\* decompressed, ranges_idx, curr_range_start
RECURSIVE TakeFromChunk(_, _, _)
TakeFromChunk(ranges, decompress_chunk_buf, st) ==
    IF st.ranges_idx >= Len(ranges) THEN [st EXCEPT !.panic = TRUE]
    ELSE
    LET crs == st.curr_range_start
        range_end == At(ranges, st.ranges_idx).end
        elems_after_curr_range_start_in_this_chunk ==
            ELEMS_PER_CHUNK - (crs % ELEMS_PER_CHUNK)
    IN IF crs + elems_after_curr_range_start_in_this_chunk <= range_end
       THEN [st EXCEPT
               !.decompressed = @ \o SubSeq(decompress_chunk_buf,
                                            (crs % ELEMS_PER_CHUNK) + 1, ELEMS_PER_CHUNK),
               !.curr_range_start = crs + elems_after_curr_range_start_in_this_chunk]
       ELSE IF range_end < crs THEN [st EXCEPT !.panic = TRUE]
       ELSE
       LET elems_this_range_needed_in_this_chunk ==
               Min(range_end - crs, ELEMS_PER_CHUNK - (crs % ELEMS_PER_CHUNK))
           taken == [st EXCEPT
                       !.decompressed =
                           @ \o SubSeq(decompress_chunk_buf, (crs % ELEMS_PER_CHUNK) + 1,
                                       (crs % ELEMS_PER_CHUNK)
                                       + elems_this_range_needed_in_this_chunk)]
       IN IF crs + elems_this_range_needed_in_this_chunk = range_end
          THEN IF st.ranges_idx + 1 = Len(ranges)
               THEN [taken EXCEPT !.ranges_idx = @ + 1]
               ELSE TakeFromChunk(ranges, decompress_chunk_buf,
                        [taken EXCEPT !.ranges_idx = @ + 1,
                                      !.curr_range_start =
                                          NextRangeStart(ranges, st.ranges_idx + 1,
                                                         range_end)])
          ELSE TakeFromChunk(ranges, decompress_chunk_buf,
                   [taken EXCEPT !.curr_range_start =
                                     crs + elems_this_range_needed_in_this_chunk])

\* the `while chunk_num * packed_chunk_size_in_byte < bytes.len()` loop
RECURSIVE DecodeChunks(_, _, _, _, _)
DecodeChunks(bytes, ranges, packed_chunk_size_in_byte, chunk_num, st) ==
    IF st.panic \/ ~(chunk_num * packed_chunk_size_in_byte < bytes.len) THEN st
    ELSE IF chunk_num >= Len(bytes.chunks) THEN [st EXCEPT !.panic = TRUE]
    ELSE DecodeChunks(bytes, ranges, packed_chunk_size_in_byte, chunk_num + 1,
                      TakeFromChunk(ranges, unchecked_unpack(At(bytes.chunks, chunk_num)),
                                    st))

\* the `for (i, bytes) in $data.iter().enumerate()` loop
RECURSIVE DecodeByteRanges(_, _, _, _, _)
DecodeByteRanges(data, bytes_idx_to_range_indices, packed_chunk_size_in_byte, i, st) ==
    IF i > Len(data) \/ st.panic THEN st
    ELSE DecodeByteRanges(data, bytes_idx_to_range_indices, packed_chunk_size_in_byte,
             i + 1,
             DecodeChunks(data[i], bytes_idx_to_range_indices[i],
                          packed_chunk_size_in_byte, 0,
                          [st EXCEPT !.ranges_idx = 0,
                                     !.curr_range_start =
                                         bytes_idx_to_range_indices[i][1].start]))

\* bitpacked_for_non_neg_decode
bitpacked_for_non_neg_decode(compressed_bit_width, uncompressed_bits_per_value, data, bytes_idx_to_range_indices, num_rows) ==
    IF uncompressed_bits_per_value \notin {8, 16, 32, 64}
    THEN [err |-> "unreachable", decompressed |-> <<>>]
    ELSE LET st == DecodeByteRanges(data, bytes_idx_to_range_indices,
                       (ELEMS_PER_CHUNK * compressed_bit_width) \div 8, 1,
                       [decompressed |-> <<>>, ranges_idx |-> 0, curr_range_start |-> 0,
                        panic |-> FALSE])
         IN [err |-> IF st.panic THEN "panic" ELSE "",
             decompressed |-> st.decompressed]

\* BitpackedForNonNegPageDecoder::decode
BitpackedForNonNegPageDecoder_decode(self, rows_to_skip, num_rows) ==
    IF self.uncompressed_bits_per_value \notin {8, 16, 32, 64}
    THEN [err |-> "InvalidInput"]
    ELSE [err |-> "",
          data |-> SubSeq(self.decompressed_buf, rows_to_skip + 1,
                          rows_to_skip + num_rows),
          bits_per_value |-> self.uncompressed_bits_per_value,
          num_values |-> num_rows]

(***************************************************************************)
(* The analyzer run on its own: an array is drawn, bitpack_params is       *)
(* called on it.                                                           *)
(***************************************************************************)
Widths == {8, 16, 32, 64}

\* values that exercise the analyzers: 0, 1, 7, a middle bit, the largest
\* positive signed value, all ones (-1), the sign bit alone (MIN), -2
ParamValues(W) ==
    { FromBits({}, W), FromBits({0}, W), FromBits(0..2, W),
      FromBits({W \div 2}, W), FromBits(0..(W - 2), W), FromBits(0..(W - 1), W),
      FromBits({W - 1}, W), FromBits(1..(W - 1), W) }

InitParams ==
    /\ pc = "array"
    /\ \E W \in Widths, s \in BOOLEAN, n \in 0..MaxParamLen :
          \E v \in [1..n -> ParamValues(W) \cup {Null}] :
             input = [W |-> W, signed_type |-> s, values |-> v]
    /\ params = None
    /\ encoded = None
    /\ buffer_index = 0
    /\ request = None
    /\ decoder = None
    /\ output = None
    /\ storage = None

\* bitpack_params(arr) on a signed integer array
AnalyzeSigned ==
    /\ pc = "array"
    /\ input.signed_type
    /\ params' = bitpack_params(input)
    /\ pc' = "analyzed"
    /\ UNCHANGED <<input, encoded, buffer_index, request, decoder, output, storage>>

\* bitpack_params(arr) on an unsigned integer array
AnalyzeUnsigned ==
    /\ pc = "array"
    /\ ~input.signed_type
    /\ params' = bitpack_params(input)
    /\ pc' = "analyzed"
    /\ UNCHANGED <<input, encoded, buffer_index, request, decoder, output, storage>>

NextParams == AnalyzeSigned \/ AnalyzeUnsigned

SpecParams == InitParams /\ [][NextParams]_vars

(***************************************************************************)
(* The width analyzer of the chunked encoder run on its own: one or more   *)
(* arrays of one integer type are drawn and                                *)
(* compute_compressed_bit_width_for_non_neg is called on them.             *)
(***************************************************************************)
MaxArrays == 2

\* a < b for W-bit unsigned values, compared from byte j down
RECURSIVE ValueLess(_, _, _)
ValueLess(a, b, j) ==
    IF j = 0 THEN FALSE
    ELSE IF a[j] # b[j] THEN a[j] < b[j]
    ELSE ValueLess(a, b, j - 1)

\* Ord::max on W-bit unsigned values
MaxValue(a, b) == IF ValueLess(a, b, Len(a)) THEN b ELSE a

\* arrow::compute::bit_or(primitive_array).unwrap_or(0)
BitOrOrZero(arr) == IF bit_or(arr) = Null THEN FromBits({}, arr.W) ELSE bit_or(arr)

\* the loop of an unsigned arm: global_max = global_max.max(array_max)
RECURSIVE GlobalMax(_, _, _)
GlobalMax(arrays, i, global_max) ==
    IF i > Len(arrays) THEN global_max
    ELSE GlobalMax(arrays, i + 1, MaxValue(global_max, BitOrOrZero(arrays[i])))

\* the loop of a signed arm: global_max_width =
\* global_max_width.max(W - array_max_width.leading_zeros())
RECURSIVE GlobalMaxWidth(_, _, _)
GlobalMaxWidth(arrays, i, global_max_width) ==
    IF i > Len(arrays) THEN global_max_width
    ELSE GlobalMaxWidth(arrays, i + 1,
             Max(global_max_width,
                 arrays[i].W - LeadingZeros(BitOrOrZero(arrays[i]), arrays[i].W)))

\* the analyzer looking at its first array only
compute_compressed_bit_width_for_first_array(arrays) ==
    LET W == arrays[1].W
        num_bits == W - LeadingZeros(BitOrOrZero(arrays[1]), W)
    IN IF num_bits = 0 THEN 1 ELSE num_bits

\* compute_compressed_bit_width_for_non_neg on arrays of one integer type
compute_compressed_bit_width_for_non_neg(arrays) ==
    LET W == arrays[1].W IN
    IF ~arrays[1].signed_type
    THEN LET global_max == GlobalMax(arrays, 1, FromBits({}, W))
             num_bits == W - LeadingZeros(global_max, W)
         IN IF num_bits = 0 THEN 1 ELSE num_bits
    ELSE LET global_max_width == GlobalMaxWidth(arrays, 1, 0)
         IN IF global_max_width = 0 THEN 1 ELSE global_max_width

\* values of the analyzed arrays: 0, 7, a middle bit, the top bit
NonNegValues(W) ==
    { FromBits({}, W), FromBits(0..2, W), FromBits({W \div 2}, W), FromBits({W - 1}, W) }

\* arrays of a W-bit type: the empty array, one value or null, and a null
\* followed by a value or null
NonNegArrays(W, signed_type) ==
    { [W |-> W, signed_type |-> signed_type, values |-> v] :
        v \in { <<>> } \cup { <<x>> : x \in NonNegValues(W) \cup {Null} }
               \cup { <<Null, x>> : x \in NonNegValues(W) \cup {Null} } }

InitBitWidth ==
    /\ pc = "arrays"
    /\ \E W \in Widths, signed_type \in BOOLEAN, n \in 1..MaxArrays :
          \E arrays \in [1..n -> NonNegArrays(W, signed_type)] :
             input = [W |-> W, signed_type |-> signed_type, arrays |-> arrays]
    /\ params = None
    /\ encoded = None
    /\ buffer_index = 0
    /\ request = None
    /\ decoder = None
    /\ output = None
    /\ storage = None

\* compute_compressed_bit_width_for_non_neg(arrays)
ComputeBitWidth ==
    /\ pc = "arrays"
    /\ params' = [compressed_bit_width |->
                      compute_compressed_bit_width_for_non_neg(input.arrays)]
    /\ pc' = "analyzed"
    /\ UNCHANGED <<input, encoded, buffer_index, request, decoder, output, storage>>

NextBitWidth == ComputeBitWidth

SpecBitWidth == InitBitWidth /\ [][NextBitWidth]_vars

(***************************************************************************)
(* Bit-granular write path followed by a read of the whole page: an array  *)
(* whose values fit in num_bits bits is encoded, the page is scheduled as  *)
(* the one range [0, N) and decoded with rows_to_skip = 0, num_rows = N.   *)
(***************************************************************************)
\* bit patterns of a num_bits-bit value: zero, all ones, the top bit alone,
\* the low bit alone, every other bit
BitPatterns(num_bits) ==
    { {}, 0..(num_bits - 1), {num_bits - 1}, {0},
      {i \in 0..(num_bits - 1) : i % 2 = 0} }

\* the W-bit value with the low num_bits bits S: zero-extended, or
\* sign-extended from bit num_bits - 1 when the type is signed
ValueOfPattern(S, num_bits, W, signed) ==
    FromBits(S \cup (IF signed /\ (num_bits - 1) \in S THEN num_bits..(W - 1) ELSE {}), W)

RECURSIVE Flatten(_)
Flatten(values) ==
    IF values = <<>> THEN <<>> ELSE Head(values) \o Flatten(Tail(values))

\* DataBlock::FixedWidth over the values' little-endian bytes
FixedWidthBlock(values, W) ==
    [kind |-> "FixedWidth", data |-> Flatten(values), bits_per_value |-> W,
     num_values |-> Len(values)]

InitPack ==
    /\ pc = "block"
    /\ \E W \in Widths, signed \in BOOLEAN, n \in 0..MaxPackLen :
         \E num_bits \in 1..W :
           \E pats \in [1..n -> BitPatterns(num_bits)] :
             LET values == [i \in 1..n |-> ValueOfPattern(pats[i], num_bits, W, signed)]
             IN input = [W |-> W, num_bits |-> num_bits, signed_type |-> signed,
                         values |-> values, block |-> FixedWidthBlock(values, W)]
    /\ params = None
    /\ encoded = None
    /\ buffer_index = 0
    /\ request = None
    /\ decoder = None
    /\ output = None
    /\ storage = None

\* BitpackedArrayEncoder::encode
EncodeBitpacked ==
    /\ pc = "block"
    /\ encoded' = BitpackedArrayEncoder_encode(
                      [num_bits |-> input.num_bits, signed_type |-> input.signed_type],
                      input.block, buffer_index)
    /\ buffer_index' = IF encoded'.err = "" THEN buffer_index + 1 ELSE buffer_index
    /\ pc' = "encoded"
    /\ UNCHANGED <<input, params, request, decoder, output, storage>>

\* BitpackedScheduler::schedule_ranges for the whole page, the fetch resolved
ScheduleWholePage ==
    /\ pc = "encoded"
    /\ encoded.err = ""
    /\ request' = [ranges |-> << [start |-> 0, end |-> encoded.num_values] >>,
                   rows_to_skip |-> 0, num_rows |-> encoded.num_values]
    /\ decoder' = BitpackedScheduler_schedule_ranges(
                      [bits_per_value |-> encoded.encoding.compressed_bits_per_value,
                       uncompressed_bits_per_value |->
                           encoded.encoding.uncompressed_bits_per_value,
                       buffer_offset |-> 0,
                       signed |-> encoded.encoding.signed],
                      request'.ranges, encoded.data)
    /\ pc' = "scheduled"
    /\ UNCHANGED <<input, params, encoded, buffer_index, output, storage>>

\* BitpackedPageDecoder::decode(0, N)
DecodeWholePage ==
    /\ pc = "scheduled"
    /\ output' = BitpackedPageDecoder_decode(decoder, request.rows_to_skip,
                                             request.num_rows)
    /\ pc' = "decoded"
    /\ UNCHANGED <<input, params, encoded, buffer_index, request, decoder, storage>>

NextPack == EncodeBitpacked \/ ScheduleWholePage \/ DecodeWholePage

SpecPack == InitPack /\ [][NextPack]_vars

\* C1: decoding the whole encoded page gives back the array.
C1_RoundTrip ==
    pc = "decoded" => (output.err = "" /\ output.data = input.block.data)

\* C4: the packed stream has ceil(N * b / 8) bytes, value i occupies bits
\* i*b .. (i+1)*b - 1 of it, least significant bit first, and after each
\* value the source cursor is on the low byte of the next value.
C4_StreamLayout ==
    pc = "encoded" =>
       LET N == Len(input.values)
           b == input.num_bits
       IN /\ encoded.err = ""
          /\ Len(encoded.data) = Ceil(N * b, 8)
          /\ \A i \in 0..(N - 1) : \A t \in 0..(b - 1) :
                BitOf(encoded.data, i * b + t) = BitOf(input.values[i + 1], t)
          /\ encoded.src_cursors = [i \in 1..N |-> i * (input.W \div 8)]

(***************************************************************************)
(* Bit-granular read path over a page of the file: PageRows values of      *)
(* bits_per_value bits each, stored at buffer_offset.  The bytes of the    *)
(* file are arbitrary; two complementary fillings make every stored bit    *)
(* appear both set and clear.                                              *)
(***************************************************************************)
FileByte(filling, j) ==
    IF filling = "a" THEN (j * 83 + 41) % 256 ELSE 255 - ((j * 83 + 41) % 256)

PageFile(filling, buffer_offset, bits_per_value) ==
    [j \in 1..(buffer_offset + Ceil(PageRows * bits_per_value, 8) + 1) |->
        FileByte(filling, j)]

PagePlacements == { [filling |-> "a", buffer_offset |-> 0],
                    [filling |-> "b", buffer_offset |-> 3] }

InitPage(widths) ==
    /\ pc = "page"
    /\ \E W \in Widths, signed \in BOOLEAN, place \in PagePlacements :
         \E b \in widths \cap (1..W) :
            input = [W |-> W, num_bits |-> b, signed_type |-> signed,
                     num_values |-> PageRows,
                     buffer_offset |-> place.buffer_offset,
                     file |-> PageFile(place.filling, place.buffer_offset, b)]
    /\ params = None
    /\ encoded = None
    /\ buffer_index = 0
    /\ request = None
    /\ decoder = None
    /\ output = None
    /\ storage = None

\* every compressed width
InitUnpack == InitPage(1..64)

\* widths below, at and above the byte boundaries
InitUnpackRanges == InitPage({1, 3, 7, 8, 9, 16, 31, 32, 64})

\* a row range of the page
RowRanges ==
    { r \in { [start |-> s, end |-> s + n] :
                s \in 0..(PageRows - 1), n \in 1..MaxRangeLen } :
      r.end <= PageRows }

\* ordered, non-overlapping lists of row ranges
RECURSIVE RangeListsFrom(_, _)
RangeListsFrom(lo, n) ==
    IF n = 0 THEN { <<>> }
    ELSE { <<>> } \cup
         UNION { { <<r>> \o rest : rest \in RangeListsFrom(r.end, n - 1) } :
                 r \in { x \in RowRanges : x.start >= lo } }

RangeLists == RangeListsFrom(0, MaxRanges) \ { <<>> }

\* BitpackedScheduler::schedule_ranges, the fetch resolved
SchedulePage(ranges) ==
    /\ pc = "page"
    /\ request' = [ranges |-> ranges, rows_to_skip |-> 0, num_rows |-> 0]
    /\ decoder' = BitpackedScheduler_schedule_ranges(
                      [bits_per_value |-> input.num_bits,
                       uncompressed_bits_per_value |-> input.W,
                       buffer_offset |-> input.buffer_offset,
                       signed |-> input.signed_type],
                      ranges, input.file)
    /\ pc' = "scheduled"
    /\ UNCHANGED <<input, params, encoded, buffer_index, output, storage>>

\* BitpackedPageDecoder::decode(rows_to_skip, num_rows)
DecodePage(rows_to_skip, num_rows) ==
    /\ pc = "scheduled"
    /\ rows_to_skip + num_rows <= TotalRowsOf(request.ranges)
    /\ request' = [request EXCEPT !.rows_to_skip = rows_to_skip,
                                  !.num_rows = num_rows]
    /\ output' = BitpackedPageDecoder_decode(decoder, rows_to_skip, num_rows)
    /\ pc' = "decoded"
    /\ UNCHANGED <<input, params, encoded, buffer_index, decoder, storage>>

ScheduleOneRange == \E r \in RowRanges : SchedulePage(<<r>>)

ScheduleRangeList == \E ranges \in RangeLists : SchedulePage(ranges)

DecodeSomeRows ==
    \E rows_to_skip \in 0..(MaxRanges * MaxRangeLen) :
       \E num_rows \in 0..(MaxRanges * MaxRangeLen) :
          DecodePage(rows_to_skip, num_rows)

NextUnpack == ScheduleOneRange \/ DecodeSomeRows

SpecUnpack == InitUnpack /\ [][NextUnpack]_vars

NextUnpackRanges == ScheduleRangeList \/ DecodeSomeRows

SpecUnpackRanges == InitUnpackRanges /\ [][NextUnpackRanges]_vars

\* bit k of the page's bit stream
PageBit(k) == BitOf(input.file, 8 * input.buffer_offset + k)

\* the value stored in row `row` of the page, widened to W bits
StoredValue(row) ==
    LET b == input.num_bits
        negative == input.signed_type /\ PageBit(row * b + b - 1) = 1
    IN FromBits({p \in 0..(input.W - 1) :
                    IF p < b THEN PageBit(row * b + p) = 1 ELSE negative},
                input.W)

RECURSIVE RowsOf(_)
RowsOf(ranges) ==
    IF ranges = <<>> THEN <<>>
    ELSE [k \in 1..(Head(ranges).end - Head(ranges).start) |->
             Head(ranges).start + k - 1] \o RowsOf(Tail(ranges))

\* C3: decode(rows_to_skip, num_rows) returns the values of the requested
\* rows rows_to_skip .. rows_to_skip + num_rows - 1, in request order.
C3_DecodeSkips ==
    pc = "decoded" =>
       /\ output.err = ""
       /\ output.data =
             Flatten([k \in 1..request.num_rows |->
                         StoredValue(RowsOf(request.ranges)[request.rows_to_skip + k])])

\* the bits_per_value bits the decoder read for its k-th row, as a set of
\* bit places 0 .. bits_per_value - 1
StoredBits(k) ==
    LET place == output.src_places[k]
        src == decoder.data[place.buffer]
    IN {p \in 0..(input.num_bits - 1) :
           BitOf(src, 8 * place.index + place.bit_offset + p) = 1}

\* the W/8 destination bytes of the k-th decoded row
DestValue(k) ==
    SubSeq(output.data, (k - 1) * (input.W \div 8) + 1, k * (input.W \div 8))

\* C5: a signed page's value whose top stored bit is set comes out as the
\* sign extension of its stored bits to W bits; otherwise every destination
\* bit above bit b - 1 is zero.
C5_SignExtension ==
    pc = "decoded" =>
       /\ output.err = ""
       /\ Len(output.src_places) = output.rows_taken
       /\ \A k \in 1..output.rows_taken :
             LET b == input.num_bits
                 stored == StoredBits(k)
             IN IF input.signed_type /\ (b - 1) \in stored /\ b < input.W
                THEN DestValue(k) = FromBits(stored \cup (b..(input.W - 1)), input.W)
                ELSE \A p \in b..(input.W - 1) : BitOf(DestValue(k), p) = 0

\* a negative value of a byte-multiple width below W, and one read from bit
\* offset 7, have been decoded
C5_Witness ==
    /\ pc = "decoded" /\ input.signed_type /\ output.rows_taken >= 2
    /\ input.num_bits = 9 /\ input.W = 32
    /\ \E k \in 1..output.rows_taken :
          /\ output.src_places[k].bit_offset = 7
          /\ 8 \in StoredBits(k)
          /\ DestValue(k) = FromBits(StoredBits(k) \cup (9..31), 32)
    /\ \E k \in 1..output.rows_taken : 8 \notin StoredBits(k)

\* C27: in BitpackedPageDecoder::decode the destination index after the k-th
\* written row is k * W/8, for every compressed width 1..W, signed or not; the
\* output buffer has num_rows * W/8 bytes, no write falls outside it and the
\* bytes after the last written row are untouched.
C27_DestinationCursor ==
    pc = "decoded" =>
       LET byte_len == input.W \div 8 IN
       /\ output.err = ""
       /\ Len(output.data) = request.num_rows * byte_len
       /\ output.rows_taken <= request.num_rows
       /\ Len(output.dst_cursors) = output.rows_taken
       /\ \A k \in 1..output.rows_taken : output.dst_cursors[k] = k * byte_len
       /\ \A j \in (output.rows_taken * byte_len + 1)..Len(output.data) :
             output.data[j] = 0

\* two rows of a signed page whose compressed width is a whole number of
\* bytes below W, and two rows of a page stored at its full width
C27_Witness ==
    /\ pc = "decoded"
    /\ output.rows_taken = 2
    /\ \/ input.num_bits = 16 /\ input.W = 32 /\ input.signed_type
          /\ output.dst_cursors = <<4, 8>>
          /\ output.data[4] = 255
       \/ input.num_bits = 16 /\ input.W = 16 /\ output.dst_cursors = <<2, 4>>

(***************************************************************************)
(* The bit-granular read path over one or two row ranges: each range is    *)
(* fetched into its own buffer, then rows are decoded across the buffers.  *)
(***************************************************************************)
\* widths that end inside a byte, at a byte and across bytes
InitEndBit == InitPage({1, 3, 5, 8, 9, 16})

\* one row range, or two ordered ranges that do not overlap
RangePairs ==
    { <<r>> : r \in RowRanges }
    \cup { pair \in { <<r, q>> : r \in RowRanges, q \in RowRanges } :
              pair[2].start >= pair[1].end }

ScheduleRangePair == \E ranges \in RangePairs : SchedulePage(ranges)

DecodeAcrossBuffers ==
    \E rows_to_skip \in 0..1 :
       \E num_rows \in 0..(2 * MaxRangeLen) :
          DecodePage(rows_to_skip, num_rows)

NextEndBit == ScheduleRangePair \/ DecodeAcrossBuffers

SpecEndBit == InitEndBit /\ [][NextEndBit]_vars

\* the first bit after the values of buffer i, counted from the buffer's
\* first byte
EndBitOf(i) ==
    LET end == decoder.buffer_bit_end_offsets[i] IN
    IF end.some THEN 8 * (Len(decoder.data[i]) - 1) + end.bits
    ELSE 8 * Len(decoder.data[i])

\* C28: the buffer fetched for the range [s, e) at width b holds the bytes
\* floor(s*b/8) .. ceil(e*b/8) of the page with start bit offset (s*b) mod 8
\* and end bit offset (e*b) mod 8, None when that is 0; rows_in_buffer gives
\* e - s for it; decode takes at most e - s rows from the buffer and reads no
\* bit at or after the end bit offset of its last byte.
C28_EndBitStop ==
    pc \in {"scheduled", "decoded"} =>
       LET b == input.num_bits IN
       /\ \A i \in 1..Len(request.ranges) :
             LET s == request.ranges[i].start
                 e == request.ranges[i].end
             IN /\ decoder.byte_ranges[i].start = input.buffer_offset + (s * b) \div 8
                /\ decoder.byte_ranges[i].end = input.buffer_offset + (e * b + 7) \div 8
                /\ Len(decoder.data[i]) = (e * b + 7) \div 8 - (s * b) \div 8
                /\ decoder.buffer_bit_start_offsets[i] = (s * b) % 8
                /\ decoder.buffer_bit_end_offsets[i] =
                      IF (e * b) % 8 = 0 THEN NoBits ELSE SomeBits((e * b) % 8)
                /\ rows_in_buffer(Len(decoder.data[i]), b,
                                  decoder.buffer_bit_start_offsets[i],
                                  decoder.buffer_bit_end_offsets[i]) = e - s
                /\ pc = "decoded" =>
                      Cardinality({k \in 1..Len(output.src_places) :
                                      output.src_places[k].buffer = i}) <= e - s
       /\ pc = "decoded" =>
             /\ output.err = ""
             /\ \A k \in 1..Len(output.src_places) :
                   LET place == output.src_places[k] IN
                   8 * place.index + place.bit_offset + b <= EndBitOf(place.buffer)

\* both buffers end inside a byte and more rows are asked for than the first
\* buffer holds: the decoder stops at the end bit of the first buffer and
\* goes on in the second
C28_Witness ==
    /\ pc = "decoded"
    /\ input.num_bits = 3
    /\ request.ranges = << [start |-> 0, end |-> 1], [start |-> 3, end |-> 5] >>
    /\ request.rows_to_skip = 0 /\ request.num_rows = 3
    /\ decoder.buffer_bit_end_offsets[1] = SomeBits(3)
    /\ output.rows_taken = 3
    /\ output.src_places[1].buffer = 1
    /\ output.src_places[2] = [buffer |-> 2, index |-> 0, bit_offset |-> 1]

(***************************************************************************)
(* Chunked write path and read path: an array of non-negative values is    *)
(* encoded, row ranges of the page are planned and submitted, and the      *)
(* fetch resolves into the decompressed buffer of a page decoder.          *)
(***************************************************************************)
\* array lengths around the chunk boundaries
ChunkedSizes ==
    {0, 1} \cup { k * ELEMS_PER_CHUNK + d : k \in 1..MaxChunks, d \in {-1, 0, 1} }

\* compressed widths of a W-bit type
ChunkedWidths(W) == { W \div 8, W }

\* the i-th value (from 0) of the array: non-zero, below 2^b and 2^12
ArrayValue(i, b) == 1 + (i % (Pow2(Min(b, 12)) - 1))

\* bounds of row ranges: around the start and the end of each chunk
ChunkedBounds(N) ==
    ({ k * ELEMS_PER_CHUNK + d : k \in 0..MaxChunks, d \in {0, 1, 1023} }
     \cup {N}) \cap (0..N)

RECURSIVE ChunkedRangeLists(_, _, _)
ChunkedRangeLists(N, lo, n) ==
    IF n = 0 THEN { <<>> }
    ELSE { <<>> } \cup
         UNION { { <<r>> \o rest : rest \in ChunkedRangeLists(N, r.end, n - 1) } :
                 r \in { x \in [start : ChunkedBounds(N), end : ChunkedBounds(N)] :
                            x.start >= lo /\ x.start < x.end } }

InitNonNeg ==
    /\ pc = "block"
    /\ \E W \in Widths, N \in ChunkedSizes, buffer_offset \in {0, 40} :
         \E b \in ChunkedWidths(W) :
            input = [W |-> W, compressed_bit_width |-> b,
                     buffer_offset |-> buffer_offset,
                     block |-> [kind |-> "FixedWidth",
                                data |-> [i \in 1..N |-> ArrayValue(i - 1, b)],
                                bits_per_value |-> W, num_values |-> N]]
    /\ params = None
    /\ encoded = None
    /\ buffer_index = 0
    /\ request = None
    /\ decoder = None
    /\ output = None
    /\ storage = None

NonNegScheduler ==
    [compressed_bit_width |-> encoded.encoding.compressed_bit_width,
     uncompressed_bits_per_value |-> encoded.encoding.uncompressed_bit_width,
     buffer_offset |-> input.buffer_offset]

\* BitpackedForNonNegArrayEncoder::encode
EncodeNonNeg ==
    /\ pc = "block"
    /\ encoded' = BitpackedForNonNegArrayEncoder_encode(
                      [compressed_bit_width |-> input.compressed_bit_width],
                      input.block, input.W, buffer_index)
    /\ buffer_index' = IF encoded'.err = "" THEN buffer_index + 1 ELSE buffer_index
    /\ pc' = "encoded"
    /\ UNCHANGED <<input, params, request, decoder, output, storage>>

\* BitpackedForNonNegScheduler::schedule_ranges up to the return of its
\* future: the byte ranges are planned and submitted
ScheduleNonNeg ==
    /\ pc = "encoded"
    /\ encoded.err = ""
    /\ \E ranges \in ChunkedRangeLists(encoded.num_values, 0, MaxChunkedRanges) :
          /\ ranges # <<>>
          /\ request' = [ranges |-> ranges]
                        @@ BitpackedForNonNegScheduler_plan(NonNegScheduler, ranges)
    /\ pc' = "fetching"
    /\ UNCHANGED <<input, params, encoded, buffer_index, decoder, output, storage>>

\* the future of schedule_ranges once the bytes have arrived
FetchResolvedNonNeg ==
    /\ pc = "fetching"
    /\ LET bytes == FetchChunks(encoded, input.buffer_offset,
                                (ELEMS_PER_CHUNK * NonNegScheduler.compressed_bit_width)
                                    \div 8,
                                request.byte_ranges)
           decompressed_output ==
               bitpacked_for_non_neg_decode(NonNegScheduler.compressed_bit_width,
                                            NonNegScheduler.uncompressed_bits_per_value,
                                            bytes, request.bytes_idx_to_range_indices,
                                            request.num_rows)
       IN decoder' = [uncompressed_bits_per_value |->
                          NonNegScheduler.uncompressed_bits_per_value,
                      err |-> decompressed_output.err,
                      decompressed_buf |-> decompressed_output.decompressed]
    /\ pc' = "ready"
    /\ UNCHANGED <<input, params, encoded, buffer_index, request, output, storage>>

NextNonNeg == EncodeNonNeg \/ ScheduleNonNeg \/ FetchResolvedNonNeg

SpecNonNeg == InitNonNeg /\ [][NextNonNeg]_vars

\* the rows of the array that the ranges ask for, in request order
RECURSIVE RequestedValues(_, _)
RequestedValues(values, ranges) ==
    IF ranges = <<>> THEN <<>>
    ELSE SubSeq(values, Head(ranges).start + 1, Head(ranges).end)
         \o RequestedValues(values, Tail(ranges))

\* C2: planning and decoding ordered, non-overlapping row ranges gives
\* exactly the requested values, in request order, without the zero padding
\* of the last chunk.
C2_ChunkedDecode ==
    pc = "ready" =>
       /\ decoder.err = ""
       /\ Len(decoder.decompressed_buf) = TotalRowsOf(request.ranges)
       /\ decoder.decompressed_buf = RequestedValues(input.block.data, request.ranges)

\* two ranges share one chunk, the second runs to the end of a partial last
\* chunk
C2_Witness ==
    /\ pc = "ready"
    /\ Len(request.ranges) = 2 /\ Len(request.byte_ranges) = 1
    /\ request.ranges[1].end < request.ranges[2].start
    /\ request.ranges[2].end = input.block.num_values
    /\ input.block.num_values % ELEMS_PER_CHUNK = 1
    /\ Len(decoder.decompressed_buf) > ELEMS_PER_CHUNK

\* C6: the chunked encoder writes ceil(N / 1024) chunks of 1024 * b / 8
\* bytes, the positions of a partial last chunk past the array hold zeros,
\* and the packed block reports num_values = N and bits_per_value = b.
C6_ChunkedSize ==
    pc = "encoded" =>
       LET N == input.block.num_values
           b == input.compressed_bit_width
           chunks == (N + 1023) \div 1024
       IN /\ encoded.err = ""
          /\ encoded.num_bytes = chunks * ((1024 * b) \div 8)
          /\ Len(encoded.chunks) = chunks
          /\ \A c \in 1..chunks : \A j \in 1..1024 :
                unchecked_unpack(encoded.chunks[c])[j] =
                   IF (c - 1) * 1024 + j <= N THEN input.block.data[(c - 1) * 1024 + j]
                   ELSE 0
          /\ encoded.num_values = N
          /\ encoded.bits_per_value = b

C6_Witness ==
    /\ pc = "encoded"
    /\ input.block.num_values = 1025
    /\ encoded.num_bytes = 2 * 128 * input.compressed_bit_width
    /\ unchecked_unpack(encoded.chunks[2])[1] # 0
    /\ unchecked_unpack(encoded.chunks[2])[2] = 0

(***************************************************************************)
(* The range planner of the chunked scheduler on its own: a scheduler is   *)
(* built for a page and plans a list of row ranges.                        *)
(***************************************************************************)
\* compressed widths of a page of W-bit values
PlanWidths(W) == {1, 3, 8, W}

\* rows of the planned page
PlanRows == MaxChunks * ELEMS_PER_CHUNK + 1

\* three adjacent ranges over two chunks
AdjacentRanges ==
    << [start |-> 0, end |-> 100], [start |-> 100, end |-> 1100],
       [start |-> 1100, end |-> 1200] >>

PlanRangeLists ==
    (ChunkedRangeLists(PlanRows, 0, MaxChunkedRanges) \ { <<>> }) \cup {AdjacentRanges}

\* BitpackedForNonNegScheduler::new
InitPlan ==
    /\ pc = "scheduler"
    /\ \E W \in Widths, buffer_offset \in {0, 40} :
         \E b \in PlanWidths(W) :
            input = [compressed_bit_width |-> b, uncompressed_bits_per_value |-> W,
                     buffer_offset |-> buffer_offset]
    /\ params = None
    /\ encoded = None
    /\ buffer_index = 0
    /\ request = None
    /\ decoder = None
    /\ output = None
    /\ storage = None

\* BitpackedForNonNegScheduler::schedule_ranges up to the return of its
\* future: the byte ranges are planned and submitted
SchedulePlan ==
    /\ pc = "scheduler"
    /\ \E ranges \in PlanRangeLists :
          request' = [ranges |-> ranges]
                     @@ BitpackedForNonNegScheduler_plan(input, ranges)
    /\ pc' = "fetching"
    /\ UNCHANGED <<input, params, encoded, buffer_index, decoder, output, storage>>

NextPlan == SchedulePlan

SpecPlan == InitPlan /\ [][NextPlan]_vars

\* chunk that holds a row
ChunkOfRow(row) == row \div 1024

\* first byte of a chunk of the page, and the byte after its last one
ChunkFirstByte(k) == input.buffer_offset + k * ((1024 * input.compressed_bit_width) \div 8)
ChunkEndByte(k) == ChunkFirstByte(k + 1)

RECURSIVE ConcatLists(_)
ConcatLists(lists) ==
    IF lists = <<>> THEN <<>> ELSE Head(lists) \o ConcatLists(Tail(lists))

\* number of the byte range whose list of logical ranges holds range i
RECURSIVE ByteRangeOfRange(_, _, _)
ByteRangeOfRange(lists, g, i) ==
    IF g >= Len(lists) \/ i <= Len(lists[g]) THEN g
    ELSE ByteRangeOfRange(lists, g + 1, i - Len(lists[g]))

\* C11: range i >= 1 joins the current byte range exactly when its first row
\* lies in the chunk of the last row of range i-1; a byte range runs from the
\* chunk of its first range's first row to the end of the chunk of its last
\* range's last row; adjacent ranges give one byte range when they share the
\* trailing chunk, else two; [0,100),[100,1100),[1100,1200) at b = 8 gives
\* the byte range [0, 2048).
C11_Coalescing ==
    pc = "fetching" =>
       LET R == request.ranges
           lists == request.bytes_idx_to_range_indices
           B == request.byte_ranges
       IN /\ \A i \in 2..Len(R) :
                (ByteRangeOfRange(lists, 1, i) = ByteRangeOfRange(lists, 1, i - 1))
                   <=> (ChunkOfRow(R[i].start) = ChunkOfRow(R[i - 1].end - 1))
          /\ Len(B) = Len(lists)
          /\ \A g \in 1..Len(B) :
                /\ lists[g] # <<>>
                /\ B[g].start = ChunkFirstByte(ChunkOfRow(lists[g][1].start))
                /\ B[g].end = ChunkEndByte(ChunkOfRow(lists[g][Len(lists[g])].end - 1))
          /\ (Len(R) = 2 /\ R[1].end = R[2].start) =>
                Len(B) = IF ChunkOfRow(R[1].end - 1) = ChunkOfRow(R[2].start) THEN 1 ELSE 2
          /\ (R = AdjacentRanges /\ input.compressed_bit_width = 8
                /\ input.buffer_offset = 0) =>
                B = << [start |-> 0, end |-> 2048] >>

C11_Witness ==
    /\ pc = "fetching"
    /\ request.ranges = AdjacentRanges
    /\ input.compressed_bit_width = 8 /\ input.buffer_offset = 0
    /\ request.byte_ranges = << [start |-> 0, end |-> 2048] >>
    /\ Len(request.bytes_idx_to_range_indices[1]) = 3

\* C12: one range [s, e) gives one byte range that covers the chunks s/1024
\* to (e-1)/1024 and no other: at most ceil((e - s + 1024) / 1024) chunks,
\* each holding a requested row.
C12_Minimality ==
    (pc = "fetching" /\ Len(request.ranges) = 1) =>
       LET s == request.ranges[1].start
           e == request.ranges[1].end
           chunk_size == (1024 * input.compressed_bit_width) \div 8
           B == request.byte_ranges
           first == (B[1].start - input.buffer_offset) \div chunk_size
           count == (B[1].end - B[1].start) \div chunk_size
       IN /\ Len(B) = 1
          /\ (B[1].start - input.buffer_offset) % chunk_size = 0
          /\ (B[1].end - B[1].start) % chunk_size = 0
          /\ first = s \div 1024
          /\ first + count - 1 = (e - 1) \div 1024
          /\ count >= 1
          /\ count <= (e - s + 1024 + 1023) \div 1024
          /\ \A k \in first..(first + count - 1) :
                \E row \in {s, e - 1, k * 1024} : row \in s..(e - 1) /\ row \div 1024 = k

\* a range from the last row of one chunk to the first row of the chunk
\* after the next
C12_Witness ==
    /\ pc = "fetching"
    /\ request.ranges = << [start |-> 1023, end |-> 2049] >>
    /\ input.buffer_offset = 40
    /\ request.byte_ranges[1].end - request.byte_ranges[1].start
          = 3 * 128 * input.compressed_bit_width

\* C13: the lists of logical ranges kept per byte range, concatenated, are
\* the requested list; no list is empty; there is one list per byte range
\* submitted.
C13_RequestPreserved ==
    pc = "fetching" =>
       /\ ConcatLists(request.bytes_idx_to_range_indices) = request.ranges
       /\ \A g \in 1..Len(request.bytes_idx_to_range_indices) :
             request.bytes_idx_to_range_indices[g] # <<>>
       /\ Len(request.byte_ranges) = Len(request.bytes_idx_to_range_indices)
       /\ request.num_rows = TotalRowsOf(request.ranges)

\* two ranges coalesced into one byte range
C13_Witness ==
    /\ pc = "fetching"
    /\ Len(request.ranges) = 2
    /\ request.ranges[1].end < request.ranges[2].start
    /\ Len(request.byte_ranges) = 1
    /\ Len(request.bytes_idx_to_range_indices[1]) = 2

\* C26: every byte range the chunked planner emits starts at
\* buffer_offset + k * chunk_size and its length is a positive multiple of
\* chunk_size = 1024 * b / 8; for ordered, non-overlapping row ranges the byte
\* ranges are increasing and pairwise disjoint; the decode loop then slices
\* whole chunks only and never indexes past the logical ranges of a byte
\* range.
C26_ChunkAligned ==
    pc \in {"fetching", "ready"} =>
       LET chunk_size == (1024 * NonNegScheduler.compressed_bit_width) \div 8
           B == request.byte_ranges
       IN /\ \A g \in 1..Len(B) :
                /\ B[g].start >= input.buffer_offset
                /\ (B[g].start - input.buffer_offset) % chunk_size = 0
                /\ B[g].end > B[g].start
                /\ (B[g].end - B[g].start) % chunk_size = 0
          /\ \A g \in 1..Len(B) : \A h \in 1..Len(B) :
                g < h => B[g].end <= B[h].start
          /\ pc = "ready" =>
                /\ decoder.err = ""
                /\ Len(decoder.decompressed_buf) = request.num_rows

\* two byte ranges that touch: the first range ends with its chunk, the second
\* starts the next chunk
C26_Witness ==
    /\ pc = "ready"
    /\ input.buffer_offset = 40
    /\ Len(request.byte_ranges) = 2
    /\ request.byte_ranges[1].end = request.byte_ranges[2].start
    /\ request.byte_ranges[2].end - request.byte_ranges[2].start
          = 128 * input.compressed_bit_width
    /\ decoder.err = ""

(***************************************************************************)
(* Scalar-quantization storage: chunks of record batches addressed through *)
(* a list of offsets.  A column of a batch is kept as a list of runs, a    *)
(* run [lo, n] standing for the n rows with row IDs lo .. lo + n - 1.      *)
(***************************************************************************)
SQ_CHUNK_CAPACITY == 1024

RECURSIVE RowsOfRuns(_)
RowsOfRuns(runs) ==
    IF runs = <<>> THEN 0 ELSE Head(runs).n + RowsOfRuns(Tail(runs))

\* RecordBatch::num_rows
num_rows(batch) == RowsOfRuns(batch.runs)

\* UInt64Array::value on the row-id column: index i from 0; a panic past the
\* end of the array
RECURSIVE ValueOfRuns(_, _)
ValueOfRuns(runs, i) ==
    IF runs = <<>> THEN [panic |-> TRUE, value |-> 0]
    ELSE IF i < Head(runs).n THEN [panic |-> FALSE, value |-> Head(runs).lo + i]
    ELSE ValueOfRuns(Tail(runs), i - Head(runs).n)

\* SQStorageChunk::new
SQStorageChunk_new(batch) ==
    IF "row_id" \notin batch.columns
    THEN [err |-> "Row ID column not found in the batch"]
    ELSE IF "sq_code" \notin batch.columns
    THEN [err |-> "SQ code column not found in the batch"]
    ELSE [err |-> "", batch |-> batch, dim |-> batch.dim, row_ids |-> batch.runs]

\* SQStorageChunk::len
SQStorageChunk_len(chunk) == RowsOfRuns(chunk.row_ids)

\* SQStorageChunk::row_id
SQStorageChunk_row_id(chunk, id) == ValueOfRuns(chunk.row_ids, id)

\* the loop of try_new over the batches from the k-th on
RECURSIVE TryNewChunks(_, _, _)
TryNewChunks(batches, k, acc) ==
    IF k > Len(batches) THEN acc
    ELSE LET offsets == Append(acc.offsets,
                               acc.offsets[Len(acc.offsets)] + num_rows(batches[k]))
             chunk == SQStorageChunk_new(batches[k])
         IN IF chunk.err # "" THEN [err |-> chunk.err]
            ELSE TryNewChunks(batches, k + 1,
                     [err |-> "", offsets |-> offsets, chunks |-> Append(acc.chunks, chunk)])

\* ScalarQuantizationStorage::try_new without a frag_reuse_index
ScalarQuantizationStorage_try_new(distance_type, bounds, batches) ==
    LET built == TryNewChunks(batches, 1, [err |-> "", offsets |-> <<0>>, chunks |-> <<>>])
    IN IF built.err # "" THEN [err |-> built.err]
       ELSE IF built.chunks = <<>> THEN [err |-> "panic"]
       ELSE [err |-> "",
             quantizer |-> [dim |-> built.chunks[1].dim, bounds |-> bounds],
             distance_type |-> distance_type,
             offsets |-> built.offsets,
             chunks |-> built.chunks]

\* ScalarQuantizationStorage::len
ScalarQuantizationStorage_len(self) == self.offsets[Len(self.offsets)]

\* slice::binary_search on the offsets (indices from 0): an index holding
\* the value when there is one, any such index when there are several, else
\* the index where the value would be inserted
binary_search(offsets, id) ==
    LET found == { o \in 0..(Len(offsets) - 1) : offsets[o + 1] = id }
    IN IF found # {} THEN { [ok |-> TRUE, index |-> o] : o \in found }
       ELSE { [ok |-> FALSE,
               index |-> Cardinality({ o \in 0..(Len(offsets) - 1) : offsets[o + 1] < id })] }

\* ScalarQuantizationStorage::chunk for one result of the binary search:
\* the offset and the chunk's index (from 0), a panic past the last chunk
ChunkAt(self, found) ==
    LET o == IF found.ok THEN found.index ELSE found.index - 1
    IN IF o < 0 \/ o >= Len(self.chunks) THEN [panic |-> TRUE]
       ELSE [panic |-> FALSE, offset |-> self.offsets[o + 1], chunk |-> o]

\* ScalarQuantizationStorage::chunk: every result the search can give
chunk(self, id) == { ChunkAt(self, found) : found \in binary_search(self.offsets, id) }

\* ScalarQuantizationStorage::row_id: every result the search can give
row_id(self, id) ==
    { IF c.panic THEN [panic |-> TRUE, value |-> 0]
      ELSE SQStorageChunk_row_id(self.chunks[c.chunk + 1], id - c.offset) :
      c \in chunk(self, id) }

RECURSIVE ConcatRuns(_)
ConcatRuns(chunks) ==
    IF chunks = <<>> THEN <<>> ELSE Head(chunks).batch.runs \o ConcatRuns(Tail(chunks))

\* arrow concat_batches under the schema of the first chunk: an error when a
\* batch has another schema
concat_batches(chunks) ==
    IF \E c \in 1..Len(chunks) :
          \/ chunks[c].batch.columns # chunks[1].batch.columns
          \/ chunks[c].batch.dim # chunks[1].batch.dim
    THEN [err |-> "schema mismatch"]
    ELSE [err |-> "", columns |-> chunks[1].batch.columns, dim |-> chunks[1].batch.dim,
          runs |-> ConcatRuns(chunks)]

\* optimize that consolidates the chunks and keeps the offsets it had
optimize_keep_offsets(self) ==
    IF ScalarQuantizationStorage_len(self) <= SQ_CHUNK_CAPACITY THEN self
    ELSE LET batch == concat_batches(self.chunks) IN
         IF batch.err # "" THEN [err |-> batch.err]
         ELSE LET new_chunk == SQStorageChunk_new([columns |-> batch.columns,
                                                   dim |-> batch.dim, runs |-> batch.runs])
              IN IF new_chunk.err # "" THEN [err |-> new_chunk.err]
                 ELSE [self EXCEPT !.chunks = <<new_chunk>>]

\* optimize that consolidates from SQ_CHUNK_CAPACITY rows on
optimize_at_capacity(self) ==
    IF ScalarQuantizationStorage_len(self) < SQ_CHUNK_CAPACITY THEN self
    ELSE LET batch == concat_batches(self.chunks) IN
         IF batch.err # "" THEN [err |-> batch.err]
         ELSE LET new_chunk == SQStorageChunk_new([columns |-> batch.columns,
                                                   dim |-> batch.dim, runs |-> batch.runs])
              IN IF new_chunk.err # "" THEN [err |-> new_chunk.err]
                 ELSE [self EXCEPT !.offsets = <<0, num_rows(batch)>>,
                                   !.chunks = <<new_chunk>>]

\* ScalarQuantizationStorage::optimize
optimize(self) ==
    IF ScalarQuantizationStorage_len(self) <= SQ_CHUNK_CAPACITY THEN self
    ELSE LET batch == concat_batches(self.chunks) IN
         IF batch.err # "" THEN [err |-> batch.err]
         ELSE LET new_chunk == SQStorageChunk_new([columns |-> batch.columns,
                                                   dim |-> batch.dim, runs |-> batch.runs])
              IN IF new_chunk.err # "" THEN [err |-> new_chunk.err]
                 ELSE [self EXCEPT !.offsets = <<0, num_rows(batch)>>,
                                   !.chunks = <<new_chunk>>]

\* SQTransformer::transform: the vector column is replaced by the column of
\* its codes, of the same dimension, the rows and their row IDs are kept
SQTransformer_transform(quantizer, batch, vector_column) ==
    IF vector_column \notin batch.columns THEN [err |-> "vector column not found"]
    ELSE [err |-> "", columns |-> (batch.columns \ {vector_column}) \cup {"sq_code"},
          dim |-> batch.dim, runs |-> batch.runs]

\* append_batch that pushes the new chunk onto the store it is called on
append_batch_in_place(self, batch, vector_column) ==
    LET new_batch == SQTransformer_transform(self.quantizer, batch, vector_column) IN
    IF new_batch.err # "" THEN [self |-> self, result |-> [err |-> new_batch.err]]
    ELSE LET new_chunk == SQStorageChunk_new([columns |-> new_batch.columns,
                                              dim |-> new_batch.dim,
                                              runs |-> new_batch.runs])
         IN IF new_chunk.err # "" THEN [self |-> self, result |-> [err |-> new_chunk.err]]
            ELSE LET pushed ==
                         [self EXCEPT
                            !.offsets = Append(@, ScalarQuantizationStorage_len(self)
                                                  + SQStorageChunk_len(new_chunk)),
                            !.chunks = Append(@, new_chunk)]
                 IN [self |-> pushed, result |-> optimize(pushed)]

\* ScalarQuantizationStorage::append_batch: the store it is called on after
\* the call, and the store or the error it returns
append_batch(self, batch, vector_column) ==
    LET new_batch == SQTransformer_transform(self.quantizer, batch, vector_column) IN
    IF new_batch.err # "" THEN [self |-> self, result |-> [err |-> new_batch.err]]
    ELSE LET storage_clone == self
             offset == ScalarQuantizationStorage_len(self)
             new_chunk == SQStorageChunk_new([columns |-> new_batch.columns,
                                              dim |-> new_batch.dim,
                                              runs |-> new_batch.runs])
         IN IF new_chunk.err # "" THEN [self |-> self, result |-> [err |-> new_chunk.err]]
            ELSE [self |-> self,
                  result |-> optimize(
                     [storage_clone EXCEPT
                        !.offsets = Append(@, offset + SQStorageChunk_len(new_chunk)),
                        !.chunks = Append(@, new_chunk)])]

\* byte j (from 0) of the code of the row with a row ID
CodeByte(id, j) == (id * 7 + j * 13) % 256

\* sq_codes.values() of a chunk: its length, and its byte k (from 0)
SqCodesLen(sq_chunk) == SQStorageChunk_len(sq_chunk) * sq_chunk.batch.dim
SqCodesValue(sq_chunk, k) ==
    CodeByte(ValueOfRuns(sq_chunk.row_ids, k \div sq_chunk.batch.dim).value, k % sq_chunk.batch.dim)

\* SQStorageChunk::sq_code_slice: a panic when the slice passes the end
sq_code_slice(sq_chunk, id) ==
    IF (id + 1) * sq_chunk.dim > SqCodesLen(sq_chunk) THEN [panic |-> TRUE, code |-> <<>>]
    ELSE [panic |-> FALSE,
          code |-> [j \in 1..sq_chunk.dim |-> SqCodesValue(sq_chunk, id * sq_chunk.dim + j - 1)]]

\* slice::chunks_exact over sq_codes.values()
chunks_exact(sq_chunk, size) ==
    [r \in 1..(SqCodesLen(sq_chunk) \div size) |->
        [j \in 1..size |-> SqCodesValue(sq_chunk, (r - 1) * size + j - 1)]]

RECURSIVE SumOver(_, _, _)
SumOver(a, b, j) ==
    IF j > Min(Len(a), Len(b)) THEN 0
    ELSE (a[j] - b[j]) * (a[j] - b[j]) + SumOver(a, b, j + 1)

RECURSIVE DotOver(_, _, _)
DotOver(a, b, j) ==
    IF j > Min(Len(a), Len(b)) THEN 0 ELSE a[j] * b[j] + DotOver(a, b, j + 1)

\* the raw kernels over u8 codes
l2_distance_uint_scalar(a, b) == SumOver(a, b, 1)
dot_distance(a, b) == 1 - DotOver(a, b, 1)

\* inverse_scalar_dist: every raw distance rescaled by the square of the
\* width of the bounds (the constant divisor 255^2 left out)
inverse_scalar_dist(values, bounds) ==
    [i \in 1..Len(values) |->
        values[i] * (bounds.end - bounds.start) * (bounds.end - bounds.start)]

\* ScalarQuantizationStorage::dist_calculator after the query was scaled to
\* its code
dist_calculator(self, query_sq_code) ==
    [query_sq_code |-> query_sq_code, bounds |-> self.quantizer.bounds, storage |-> self]

\* the kernel of a distance type, as both distance and distance_all pick it
RawDistance(distance_type, sq_code, query_sq_code) ==
    IF distance_type \in {"L2", "Cosine"}
    THEN l2_distance_uint_scalar(sq_code, query_sq_code)
    ELSE dot_distance(sq_code, query_sq_code)

\* SQDistCalculator::distance: every result the search can give
distance(self, id) ==
    { IF c.panic THEN [panic |-> TRUE, value |-> 0]
      ELSE LET sq_code == sq_code_slice(self.storage.chunks[c.chunk + 1], id - c.offset)
           IN IF sq_code.panic THEN [panic |-> TRUE, value |-> 0]
              ELSE [panic |-> FALSE,
                    value |-> inverse_scalar_dist(
                                 << RawDistance(self.storage.distance_type, sq_code.code,
                                                self.query_sq_code) >>,
                                 self.bounds)[1]] :
      c \in chunk(self.storage, id) }

\* the flat_map of distance_all over the chunks from the k-th on
RECURSIVE RawDistancesFrom(_, _)
RawDistancesFrom(self, k) ==
    IF k > Len(self.storage.chunks) THEN <<>>
    ELSE LET c == self.storage.chunks[k]
             codes == chunks_exact(c, c.dim)
         IN [r \in 1..Len(codes) |->
                RawDistance(self.storage.distance_type, codes[r], self.query_sq_code)]
            \o RawDistancesFrom(self, k + 1)

\* SQDistCalculator::distance_all
distance_all(self) == inverse_scalar_dist(RawDistancesFrom(self, 1), self.bounds)

(***************************************************************************)
(* A caller builds a store with try_new, extends it with append_batch,     *)
(* takes the returned store in place of the old one, and looks rows up.    *)
(***************************************************************************)
\* row counts of a batch: around the capacity of a chunk, or small
BatchRows == {0, 2, SQ_CHUNK_CAPACITY}
SmallBatchRows == {0, 1, 2}

\* dimensions of the vectors of a batch
BatchDims == {2, 3}

\* first row ID of the k-th batch handed to the store
FirstRowId(k) == 2000 * (MaxBatches + 2 - k)

RecordBatch(k, n, dim, columns) ==
    [columns |-> columns, dim |-> dim,
     runs |-> IF n = 0 THEN <<>> ELSE << [lo |-> FirstRowId(k), n |-> n] >>]

\* the k-th batch when it carries codes (the input of try_new): with the
\* columns of a chunk, or without the code column
CodeBatches(k, rows) ==
    { RecordBatch(k, n, dim, {"row_id", "sq_code"}) : n \in rows, dim \in BatchDims }
    \cup { RecordBatch(k, 2, 2, {"row_id"}) }

\* the k-th batch when it carries vectors (the input of append_batch)
VectorBatches(k, rows) ==
    { RecordBatch(k, n, dim, {"row_id", "vector"}) : n \in rows, dim \in BatchDims }
    \cup { RecordBatch(k, 2, 2, {"row_id"}) }

RECURSIVE CodeBatchLists(_, _, _)
CodeBatchLists(k, n, rows) ==
    IF n = 0 THEN { <<>> }
    ELSE { <<>> } \cup
         UNION { { <<batch>> \o rest : rest \in CodeBatchLists(k + 1, n - 1, rows) } :
                 batch \in CodeBatches(k, rows) }

\* ids at the chunk boundaries of a store
QueryIds(self) ==
    { id \in UNION { {self.offsets[o] - 1, self.offsets[o], self.offsets[o] + 1} :
                     o \in 1..Len(self.offsets) } :
        id >= 0 /\ id < ScalarQuantizationStorage_len(self) }

InitSQ ==
    /\ pc = "new"
    /\ \E distance_type \in {"L2", "Cosine", "Dot"} :
         input = [distance_type |-> distance_type, bounds |-> [start |-> 0, end |-> 4],
                  fed |-> 0]
    /\ params = None
    /\ encoded = None
    /\ buffer_index = 0
    /\ request = None
    /\ decoder = None
    /\ output = None
    /\ storage = None

\* ScalarQuantizationStorage::try_new over batches of the given row counts
TryNewOver(rows) ==
    /\ pc = "new"
    /\ \E batches \in CodeBatchLists(1, MaxBatches, rows) :
         LET result == ScalarQuantizationStorage_try_new(input.distance_type,
                                                         input.bounds, batches) IN
         /\ request' = [op |-> "try_new", batches |-> batches]
         /\ output' = [op |-> "try_new", result |-> result]
         /\ storage' = IF result.err = "" THEN result ELSE None
         /\ pc' = IF result.err = "" THEN "store" ELSE "failed"
         /\ input' = [input EXCEPT !.fed = Len(batches)]
    /\ UNCHANGED <<params, encoded, buffer_index, decoder>>

\* ScalarQuantizationStorage::append_batch of a batch of one of the given
\* row counts
AppendBatchOf(rows) ==
    /\ pc = "store"
    /\ input.fed < MaxBatches
    /\ \E batch \in VectorBatches(input.fed + 1, rows) :
         LET call == append_batch(storage, batch, "vector") IN
         /\ request' = [op |-> "append_batch", receiver |-> storage, batch |-> batch]
         /\ storage' = call.self
         /\ output' = [op |-> "append_batch", result |-> call.result]
    /\ pc' = "appended"
    /\ input' = [input EXCEPT !.fed = @ + 1]
    /\ UNCHANGED <<params, encoded, buffer_index, decoder>>

TryNew == TryNewOver(BatchRows)
AppendBatch == AppendBatchOf(BatchRows)
TryNewSmall == TryNewOver(SmallBatchRows)
AppendSmallBatch == AppendBatchOf(SmallBatchRows)

\* the caller goes on with the store that append_batch returned
TakeReturnedStore ==
    /\ pc = "appended"
    /\ output.result.err = ""
    /\ storage' = output.result
    /\ pc' = "store"
    /\ UNCHANGED <<input, params, encoded, buffer_index, request, decoder, output>>

\* the caller goes on with the store it had
KeepStore ==
    /\ pc = "appended"
    /\ pc' = "store"
    /\ UNCHANGED <<input, params, encoded, buffer_index, request, decoder, output, storage>>

\* ScalarQuantizationStorage::row_id
RowId ==
    /\ pc = "store"
    /\ \E id \in QueryIds(storage) :
         \E value \in row_id(storage, id) :
            /\ request' = [op |-> "row_id", id |-> id]
            /\ output' = [op |-> "row_id", id |-> id, panic |-> value.panic,
                           value |-> value.value]
    /\ pc' = "answered"
    /\ UNCHANGED <<input, params, encoded, buffer_index, decoder, storage>>

\* the code of the query vector
QueryCode == <<7, 200, 31>>

\* SQDistCalculator::distance through a calculator made for the query
Distance ==
    /\ pc = "store"
    /\ \E id \in QueryIds(storage) :
         \E d \in distance(dist_calculator(storage, QueryCode), id) :
            /\ request' = [op |-> "distance", id |-> id]
            /\ output' = [op |-> "distance", id |-> id, panic |-> d.panic,
                           value |-> d.value]
    /\ pc' = "answered"
    /\ UNCHANGED <<input, params, encoded, buffer_index, decoder, storage>>

\* SQDistCalculator::distance_all through a calculator made for the query
DistanceAll ==
    /\ pc = "store"
    /\ request' = [op |-> "distance_all"]
    /\ output' = [op |-> "distance_all",
                   values |-> distance_all(dist_calculator(storage, QueryCode))]
    /\ pc' = "answered"
    /\ UNCHANGED <<input, params, encoded, buffer_index, decoder, storage>>

NextSQ == TryNew \/ AppendBatch \/ TakeReturnedStore \/ KeepStore \/ RowId

SpecSQ == InitSQ /\ [][NextSQ]_vars

NextSQDist ==
    TryNewSmall \/ AppendSmallBatch \/ TakeReturnedStore \/ KeepStore \/ Distance
    \/ DistanceAll

SpecSQDist == InitSQ /\ [][NextSQDist]_vars

\* the row IDs of all chunks of a store as one column, and its row i
AllRowIds(self) == ConcatRuns(self.chunks)
RowIdOfAll(self, i) == ValueOfRuns(AllRowIds(self), i)

\* C14: row_id(id) is the id-th row ID of the batches' row-id columns put
\* one after the other in insertion order, for every id below len().
C14_ChunkedAddressing ==
    (pc = "answered" /\ output.op = "row_id") =>
       /\ ~output.panic
       /\ output.value = RowIdOfAll(storage, output.id).value

\* offsets start at 0, never decrease, are one more than the chunks, differ
\* by the chunks' lengths, and end at len() = the rows of all chunks
OffsetsInvariant(self) ==
    /\ self.offsets[1] = 0
    /\ Len(self.offsets) = Len(self.chunks) + 1
    /\ \A o \in 1..Len(self.chunks) :
          /\ self.offsets[o] <= self.offsets[o + 1]
          /\ self.offsets[o + 1] - self.offsets[o] = SQStorageChunk_len(self.chunks[o])
    /\ ScalarQuantizationStorage_len(self) = self.offsets[Len(self.offsets)]
    /\ ScalarQuantizationStorage_len(self) = RowsOfRuns(AllRowIds(self))

\* C15: every store made by try_new, append_batch and optimize keeps the
\* offsets invariant.
C15_OffsetsInvariant ==
    /\ storage # None => OffsetsInvariant(storage)
    /\ (pc = "appended" /\ output.result.err = "") => OffsetsInvariant(output.result)

\* append_batch returned a store of three chunks whose second chunk is empty
C15_Witness ==
    /\ pc = "appended" /\ output.result.err = ""
    /\ Len(output.result.chunks) = 3
    /\ output.result.offsets[2] = 2
    /\ output.result.offsets[3] = output.result.offsets[2]
    /\ output.result.offsets[4] = output.result.offsets[3] + 2

\* C16: after append_batch the store it was called on has the offsets, the
\* chunks, the length and the row IDs it had before, whether the call
\* returned a store or an error.
C16_AppendLeavesStore ==
    pc = "appended" =>
       /\ storage.offsets = request.receiver.offsets
       /\ storage.chunks = request.receiver.chunks
       /\ ScalarQuantizationStorage_len(storage)
             = ScalarQuantizationStorage_len(request.receiver)
       /\ \A i \in 0..(ScalarQuantizationStorage_len(storage) - 1) :
             row_id(storage, i) = row_id(request.receiver, i)
       /\ storage = request.receiver

\* the call returned one consolidated chunk, the store it was called on
\* still has its two chunks
C16_Witness ==
    /\ pc = "appended" /\ output.result.err = ""
    /\ Len(output.result.chunks) = 1
    /\ Len(storage.chunks) = 2
    /\ ScalarQuantizationStorage_len(storage) < ScalarQuantizationStorage_len(output.result)

\* C17: the store returned by append_batch has one chunk and the offsets
\* [0, len()] when it has more than 1024 rows, else the old chunks followed
\* by the new one; its length is the old length plus the rows appended, and
\* its rows are the old rows followed by the new ones.
C17_Consolidation ==
    (pc = "appended" /\ output.result.err = "") =>
       LET old == request.receiver
           new == output.result
           appended == request.batch.runs
           total == ScalarQuantizationStorage_len(new)
       IN /\ total = ScalarQuantizationStorage_len(old) + RowsOfRuns(appended)
          /\ IF total > 1024
             THEN /\ Len(new.chunks) = 1
                  /\ new.offsets = <<0, total>>
                  /\ \A i \in 0..(total - 1) :
                        row_id(new, i) = { ValueOfRuns(AllRowIds(old) \o appended, i) }
             ELSE /\ Len(new.chunks) = Len(old.chunks) + 1
                  /\ SubSeq(new.chunks, 1, Len(old.chunks)) = old.chunks
                  /\ new.chunks[Len(new.chunks)].row_ids = appended
                  /\ new.offsets = Append(old.offsets, total)
          /\ \A i \in 0..(total - 1) :
                RowIdOfAll(new, i) = ValueOfRuns(AllRowIds(old) \o appended, i)

\* two rows appended to 1024 rows in two chunks
C17_Witness ==
    /\ pc = "appended" /\ output.result.err = ""
    /\ ScalarQuantizationStorage_len(request.receiver) = 1024
    /\ Len(request.receiver.chunks) = 2
    /\ ScalarQuantizationStorage_len(output.result) = 1026
    /\ output.result.offsets = <<0, 1026>>

\* C18: all chunks of a store have the dimension of its quantizer.
C18_ConstantDim ==
    storage # None =>
       \A c \in 1..Len(storage.chunks) : storage.chunks[c].dim = storage.quantizer.dim

\* C19: distance_all returns len() values and its i-th value is distance(i).
C19_DistanceAllAgrees ==
    (pc = "answered" /\ output.op = "distance_all") =>
       /\ Len(output.values) = ScalarQuantizationStorage_len(storage)
       /\ \A i \in 0..(ScalarQuantizationStorage_len(storage) - 1) :
             distance(dist_calculator(storage, QueryCode), i)
                = { [panic |-> FALSE, value |-> output.values[i + 1]] }

(***************************************************************************)
(* The futures of the two schedulers and the I/O collaborator: a page is   *)
(* scheduled, the byte-fetch future resolves to bytes or to an error, and  *)
(* a decoder, if one was made, decodes the rows asked for.                 *)
(***************************************************************************)
\* errors of the byte-fetch future
IoErrors == {"io: timed out", "io: not found"}

\* what the future of EncodingsIo::submit_request resolves to
IoOutcomes(bytes) ==
    { [err |-> "", bytes |-> bytes] } \cup { [err |-> e, bytes |-> <<>>] : e \in IoErrors }

\* the async block with the `?` of line 443 left out: a failed fetch is
\* taken as no bytes and a decoder is made of them
BitpackedForNonNegScheduler_future_unchecked(self, plan, fetched) ==
    IF fetched.err # ""
    THEN [err |-> "",
          decoder |-> [uncompressed_bits_per_value |-> self.uncompressed_bits_per_value,
                       err |-> "", decompressed_buf |-> <<>>]]
    ELSE LET decompressed_output ==
                 bitpacked_for_non_neg_decode(self.compressed_bit_width,
                                              self.uncompressed_bits_per_value,
                                              fetched.bytes,
                                              plan.bytes_idx_to_range_indices,
                                              plan.num_rows)
         IN [err |-> "",
             decoder |-> [uncompressed_bits_per_value |-> self.uncompressed_bits_per_value,
                          err |-> decompressed_output.err,
                          decompressed_buf |-> decompressed_output.decompressed]]

\* the async block of BitpackedForNonNegScheduler::schedule_ranges
BitpackedForNonNegScheduler_future(self, plan, fetched) ==
    IF fetched.err # ""
    THEN [err |-> fetched.err, decoder |-> None]
    ELSE LET decompressed_output ==
                 bitpacked_for_non_neg_decode(self.compressed_bit_width,
                                              self.uncompressed_bits_per_value,
                                              fetched.bytes,
                                              plan.bytes_idx_to_range_indices,
                                              plan.num_rows)
         IN [err |-> "",
             decoder |-> [uncompressed_bits_per_value |-> self.uncompressed_bits_per_value,
                          err |-> decompressed_output.err,
                          decompressed_buf |-> decompressed_output.decompressed]]

\* the async block of BitpackedScheduler::schedule_ranges; fetched.bytes is
\* the file the collaborator read the byte ranges from
BitpackedScheduler_future(self, ranges, fetched) ==
    IF fetched.err # ""
    THEN [err |-> fetched.err, decoder |-> None]
    ELSE [err |-> "",
          decoder |-> BitpackedScheduler_schedule_ranges(self, ranges, fetched.bytes)]

\* lengths of the chunked pages: one chunk, two chunks
IOSizes == {1, ELEMS_PER_CHUNK + 1}

\* row ranges asked of a chunked page of N rows
IORangeLists(N) ==
    { << [start |-> 0, end |-> 1] >>, << [start |-> 0, end |-> N] >> }
    \cup (IF N > 2 THEN { << [start |-> 0, end |-> 1], [start |-> N - 1, end |-> N] >> }
          ELSE {})

\* a chunked page written by BitpackedForNonNegArrayEncoder::encode
InitIONonNeg ==
    /\ pc = "encoded"
    /\ \E W \in Widths, N \in IOSizes, buffer_offset \in {0, 40} :
         \E b \in ChunkedWidths(W) :
            /\ input = [W |-> W, compressed_bit_width |-> b,
                        buffer_offset |-> buffer_offset,
                        block |-> [kind |-> "FixedWidth",
                                   data |-> [i \in 1..N |-> ArrayValue(i - 1, b)],
                                   bits_per_value |-> W, num_values |-> N]]
            /\ encoded = BitpackedForNonNegArrayEncoder_encode(
                             [compressed_bit_width |-> b], input.block, W, 0)
    /\ buffer_index = 1

\* a page of the bit-granular encoding
InitIOPage ==
    /\ pc = "page"
    /\ \E W \in Widths, signed \in BOOLEAN, place \in PagePlacements :
         \E b \in {3, 8} :
            input = [W |-> W, num_bits |-> b, signed_type |-> signed,
                     num_values |-> PageRows,
                     buffer_offset |-> place.buffer_offset,
                     file |-> PageFile(place.filling, place.buffer_offset, b)]
    /\ encoded = None
    /\ buffer_index = 0

InitIO ==
    /\ InitIONonNeg \/ InitIOPage
    /\ params = None
    /\ request = None
    /\ decoder = None
    /\ output = None
    /\ storage = None

PageScheduler ==
    [bits_per_value |-> input.num_bits, uncompressed_bits_per_value |-> input.W,
     buffer_offset |-> input.buffer_offset, signed |-> input.signed_type]

\* schedule_ranges that decodes before its future is polled: the decoder is
\* made of the bytes of the page when the request is submitted
SubmitNonNegIO_decoding ==
    /\ pc = "encoded"
    /\ encoded.err = ""
    /\ \E ranges \in IORangeLists(encoded.num_values) :
          LET plan == BitpackedForNonNegScheduler_plan(NonNegScheduler, ranges) IN
          /\ request' = [scheduler |-> "nonneg", ranges |-> ranges, submitted |-> 1,
                         io_err |-> ""] @@ plan
          /\ decoder' = BitpackedForNonNegScheduler_future(
                            NonNegScheduler, plan,
                            [err |-> "",
                             bytes |-> FetchChunks(encoded, input.buffer_offset,
                                 (ELEMS_PER_CHUNK * NonNegScheduler.compressed_bit_width)
                                     \div 8,
                                 plan.byte_ranges)]).decoder
    /\ pc' = "fetching"
    /\ UNCHANGED <<input, params, encoded, buffer_index, output, storage>>

\* BitpackedForNonNegScheduler::schedule_ranges up to the return of its
\* future: one call of submit_request
SubmitNonNegIO ==
    /\ pc = "encoded"
    /\ encoded.err = ""
    /\ \E ranges \in IORangeLists(encoded.num_values) :
          request' = [scheduler |-> "nonneg", ranges |-> ranges, submitted |-> 1,
                      io_err |-> ""]
                     @@ BitpackedForNonNegScheduler_plan(NonNegScheduler, ranges)
    /\ pc' = "fetching"
    /\ UNCHANGED <<input, params, encoded, buffer_index, decoder, output, storage>>

\* BitpackedScheduler::schedule_ranges up to the return of its future: one
\* call of submit_request
SubmitPageIO ==
    /\ pc = "page"
    /\ \E ranges \in RangeLists :
          request' = [scheduler |-> "bits", ranges |-> ranges, submitted |-> 1,
                      io_err |-> "",
                      byte_ranges |-> [i \in 1..Len(ranges) |->
                          [start |-> ByteRangeOf(PageScheduler, ranges[i]).start,
                           end |-> ByteRangeOf(PageScheduler, ranges[i]).end]]]
    /\ pc' = "fetching"
    /\ UNCHANGED <<input, params, encoded, buffer_index, decoder, output, storage>>

\* the future of the chunked scheduler is polled once the fetch has ended
FutureNonNegIO ==
    /\ pc = "fetching" /\ request.scheduler = "nonneg"
    /\ \E fetched \in IoOutcomes(
                         FetchChunks(encoded, input.buffer_offset,
                                     (ELEMS_PER_CHUNK * NonNegScheduler.compressed_bit_width)
                                         \div 8,
                                     request.byte_ranges)) :
          LET resolved == BitpackedForNonNegScheduler_future(NonNegScheduler, request,
                                                             fetched)
          IN /\ request' = [request EXCEPT !.io_err = fetched.err]
             /\ decoder' = resolved.decoder
             /\ output' = [err |-> resolved.err, decoded |-> None]
    /\ pc' = "resolved"
    /\ UNCHANGED <<input, params, encoded, buffer_index, storage>>

\* the future of the bit-granular scheduler is polled once the fetch has
\* ended
FuturePageIO ==
    /\ pc = "fetching" /\ request.scheduler = "bits"
    /\ \E fetched \in IoOutcomes(input.file) :
          LET resolved == BitpackedScheduler_future(PageScheduler, request.ranges,
                                                    fetched)
          IN /\ request' = [request EXCEPT !.io_err = fetched.err]
             /\ decoder' = resolved.decoder
             /\ output' = [err |-> resolved.err, decoded |-> None]
    /\ pc' = "resolved"
    /\ UNCHANGED <<input, params, encoded, buffer_index, storage>>

\* BitpackedForNonNegPageDecoder::decode of all the rows scheduled
DecodeNonNegIO ==
    /\ pc = "resolved" /\ request.scheduler = "nonneg"
    /\ decoder # None
    /\ decoder.err = ""
    /\ output' = [output EXCEPT !.decoded =
                      BitpackedForNonNegPageDecoder_decode(decoder, 0, request.num_rows)]
    /\ pc' = "decoded"
    /\ UNCHANGED <<input, params, encoded, buffer_index, request, decoder, storage>>

\* BitpackedPageDecoder::decode of all the rows scheduled
DecodePageIO ==
    /\ pc = "resolved" /\ request.scheduler = "bits"
    /\ decoder # None
    /\ output' = [output EXCEPT !.decoded =
                      BitpackedPageDecoder_decode(decoder, 0,
                                                  TotalRowsOf(request.ranges))]
    /\ pc' = "decoded"
    /\ UNCHANGED <<input, params, encoded, buffer_index, request, decoder, storage>>

NextIO ==
    \/ SubmitNonNegIO \/ SubmitPageIO \/ FutureNonNegIO \/ FuturePageIO
    \/ DecodeNonNegIO \/ DecodePageIO

SpecIO == InitIO /\ [][NextIO]_vars

\* C20: when the byte fetch fails, the future of schedule_ranges resolves to
\* the error of the fetch, there is no page decoder and no decoded buffer,
\* and submit_request was called once, for both schedulers.
C20_IoFailurePropagates ==
    (pc \in {"resolved", "decoded"} /\ request.io_err # "") =>
       /\ output.err = request.io_err
       /\ decoder = None
       /\ output.decoded = None
       /\ pc = "resolved"
       /\ request.submitted = 1

\* the fetch of two byte ranges of a chunked page failed
C20_Witness ==
    /\ pc = "resolved"
    /\ request.scheduler = "nonneg"
    /\ request.io_err \in IoErrors
    /\ Len(request.byte_ranges) = 2

\* C21: schedule_ranges calls submit_request once before it returns its
\* future; while the fetch is pending there is no decoder; a decoder appears
\* only in the step that ends a successful fetch, and no step submits again.
C21_FetchThenDecode ==
    /\ [](pc = "fetching" => (decoder = None /\ request.submitted = 1))
    /\ [][ /\ (decoder' # decoder) =>
                 (pc = "fetching" /\ decoder = None /\ pc' = "resolved"
                  /\ request'.io_err = "")
           /\ (output' # output /\ pc' = "decoded") =>
                 (pc = "resolved" /\ decoder # None /\ request' = request)
           /\ (request # None) =>
                 (request'.submitted = request.submitted
                  /\ request'.byte_ranges = request.byte_ranges) ]_vars

\* two ranges of a bit-granular page were fetched by one request and decoded
C21_Witness ==
    /\ pc = "decoded"
    /\ request.scheduler = "bits"
    /\ request.submitted = 1
    /\ Len(request.byte_ranges) = 2
    /\ output.decoded # None

(***************************************************************************)
(* Pages whose description names any uncompressed width: the schedulers    *)
(* take uncompressed_bits_per_value from the page description, so a        *)
(* decoder can be asked for a width that is no integer type.               *)
(***************************************************************************)
\* widths of no integer type
UnsupportedWidths == {4, 12, 24, 128}

\* a chunked page of b-bit values, described with the width it was written
\* for or with an unsupported one
InitWidthNonNeg ==
    /\ pc = "encoded"
    /\ \E W \in Widths, N \in IOSizes, buffer_offset \in {0, 40} :
         \E b \in ChunkedWidths(W), described \in {W} \cup UnsupportedWidths :
            /\ input = [W |-> W, compressed_bit_width |-> b,
                        uncompressed_bits_per_value |-> described,
                        buffer_offset |-> buffer_offset,
                        block |-> [kind |-> "FixedWidth",
                                   data |-> [i \in 1..N |-> ArrayValue(i - 1, b)],
                                   bits_per_value |-> W, num_values |-> N]]
            /\ encoded = BitpackedForNonNegArrayEncoder_encode(
                             [compressed_bit_width |-> b], input.block, W, 0)
    /\ buffer_index = 1

\* a bit-granular page, described with any width
InitWidthPage ==
    /\ pc = "page"
    /\ \E described \in Widths \cup UnsupportedWidths, signed \in BOOLEAN,
          place \in PagePlacements :
         \E b \in {3, 8} :
            input = [uncompressed_bits_per_value |-> described, num_bits |-> b,
                     signed_type |-> signed, num_values |-> PageRows,
                     buffer_offset |-> place.buffer_offset,
                     file |-> PageFile(place.filling, place.buffer_offset, b)]
    /\ encoded = None
    /\ buffer_index = 0

InitWidth ==
    /\ InitWidthNonNeg \/ InitWidthPage
    /\ params = None
    /\ request = None
    /\ decoder = None
    /\ output = None
    /\ storage = None

\* BitpackedForNonNegScheduler::schedule_ranges and its future, the fetch
\* resolved
ScheduleNonNegWidth ==
    /\ pc = "encoded"
    /\ encoded.err = ""
    /\ \E ranges \in IORangeLists(encoded.num_values) :
          LET self == [compressed_bit_width |-> input.compressed_bit_width,
                       uncompressed_bits_per_value |-> input.uncompressed_bits_per_value,
                       buffer_offset |-> input.buffer_offset]
              plan == BitpackedForNonNegScheduler_plan(self, ranges)
              fetched == [err |-> "",
                          bytes |-> FetchChunks(encoded, input.buffer_offset,
                                       (ELEMS_PER_CHUNK * self.compressed_bit_width) \div 8,
                                       plan.byte_ranges)]
          IN /\ request' = [scheduler |-> "nonneg", ranges |-> ranges] @@ plan
             /\ decoder' = BitpackedForNonNegScheduler_future(self, plan, fetched).decoder
    /\ pc' = "scheduled"
    /\ UNCHANGED <<input, params, encoded, buffer_index, output, storage>>

\* BitpackedScheduler::schedule_ranges and its future, the fetch resolved
SchedulePageWidth ==
    /\ pc = "page"
    /\ \E r \in RowRanges :
          /\ request' = [scheduler |-> "bits", ranges |-> <<r>>]
          /\ decoder' = BitpackedScheduler_schedule_ranges(
                            [bits_per_value |-> input.num_bits,
                             uncompressed_bits_per_value |->
                                 input.uncompressed_bits_per_value,
                             buffer_offset |-> input.buffer_offset,
                             signed |-> input.signed_type],
                            <<r>>, input.file)
    /\ pc' = "scheduled"
    /\ UNCHANGED <<input, params, encoded, buffer_index, output, storage>>

\* BitpackedForNonNegPageDecoder::decode of the rows scheduled; there is no
\* decoder to call when the future panicked
DecodeNonNegWidth ==
    /\ pc = "scheduled" /\ request.scheduler = "nonneg"
    /\ decoder.err = ""
    /\ output' = BitpackedForNonNegPageDecoder_decode(decoder, 0, request.num_rows)
    /\ pc' = "decoded"
    /\ UNCHANGED <<input, params, encoded, buffer_index, request, decoder, storage>>

\* BitpackedPageDecoder::decode of the rows scheduled
DecodePageWidth ==
    /\ pc = "scheduled" /\ request.scheduler = "bits"
    /\ output' = BitpackedPageDecoder_decode(decoder, 0, TotalRowsOf(request.ranges))
    /\ pc' = "decoded"
    /\ UNCHANGED <<input, params, encoded, buffer_index, request, decoder, storage>>

NextWidth ==
    \/ ScheduleNonNegWidth \/ SchedulePageWidth \/ DecodeNonNegWidth \/ DecodePageWidth

SpecWidth == InitWidth /\ [][NextWidth]_vars

\* C22: decoding a page whose uncompressed width is none of 8, 16, 32, 64
\* gives the caller an InvalidInput error and no buffer, from either decoder.
C22_UnsupportedWidth ==
    (input.uncompressed_bits_per_value \notin {8, 16, 32, 64}) =>
       /\ (pc \in {"scheduled", "decoded"} /\ request.scheduler = "nonneg") =>
             decoder.err = ""
       /\ pc = "decoded" => output.err = "InvalidInput"
       /\ (pc = "scheduled" /\ request.scheduler = "bits") =>
             BitpackedPageDecoder_decode(decoder, 0, TotalRowsOf(request.ranges)).err
                = "InvalidInput"

(***************************************************************************)
(* The two encoders called on blocks of every shape, with the caller's     *)
(* buffer_index counter: a call gives the encoded array or the error, and  *)
(* the value of the counter after it.                                      *)
(***************************************************************************)
IntegerTypes == {"UInt8", "Int8", "UInt16", "Int16", "UInt32", "Int32", "UInt64", "Int64"}

\* std::mem::size_of::<$data_type>() * 8 for the primitive type of a DataType
TypeWidth(data_type) ==
    IF data_type \in {"UInt8", "Int8"} THEN 8
    ELSE IF data_type \in {"UInt16", "Int16"} THEN 16
    ELSE IF data_type \in {"UInt32", "Int32", "Float32"} THEN 32
    ELSE 64

\* the Nullable arm of encode with the inner match left out: the values of
\* every inner block are packed
BitpackedForNonNegArrayEncoder_encode_nullable_unchecked(self, nullable, data_type, index) ==
    LET validity_buffer_index == index
        validity_desc == [kind |-> "flat", bits_per_value |-> 1,
                          buffer_index |-> validity_buffer_index]
        unpacked == [kind |-> "FixedWidth", data |-> <<>>,
                     bits_per_value |-> TypeWidth(data_type), num_values |-> 0]
        encoded_values == encode_fixed_width(self, unpacked, TypeWidth(data_type),
                                             index + 1)
    IN [result |-> [err |-> "", kind |-> "Nullable", data |-> encoded_values,
                    nulls |-> nullable.nulls,
                    encoding |-> [kind |-> "some_null", validity |-> validity_desc,
                                  values |-> encoded_values.encoding]],
        buffer_index |-> index + 2]

\* the Nullable arm of BitpackedForNonNegArrayEncoder::encode (lines 310-348)
BitpackedForNonNegArrayEncoder_encode_nullable(self, nullable, data_type, index) ==
    LET validity_buffer_index == index
        validity_desc == [kind |-> "flat", bits_per_value |-> 1,
                          buffer_index |-> validity_buffer_index]
        unpacked == nullable.data
    IN IF unpacked.kind # "FixedWidth"
       THEN [result |-> [err |-> "InvalidInput"], buffer_index |-> index + 1]
       ELSE IF data_type \notin IntegerTypes
       THEN [result |-> [err |-> "unreachable"], buffer_index |-> index + 1]
       ELSE LET encoded_values == encode_fixed_width(self, unpacked, TypeWidth(data_type),
                                                     index + 1)
            IN [result |-> [err |-> "", kind |-> "Nullable", data |-> encoded_values,
                            nulls |-> nullable.nulls,
                            encoding |-> [kind |-> "some_null", validity |-> validity_desc,
                                          values |-> encoded_values.encoding]],
                buffer_index |-> index + 2]

\* BitpackedForNonNegArrayEncoder::encode with its `buffer_index: &mut u32`:
\* the Result (err "unreachable" is the panic of lines 307 and 327) and the
\* counter after the call
BitpackedForNonNegArrayEncoder_encode_block(self, data, data_type, index) ==
    IF data.kind = "AllNull"
    THEN [result |-> [err |-> "", kind |-> "AllNull", num_values |-> data.num_values,
                      encoding |-> [kind |-> "all_null"]],
          buffer_index |-> index]
    ELSE IF data.kind = "FixedWidth"
    THEN IF data_type \in IntegerTypes
         THEN [result |-> encode_fixed_width(self, data, TypeWidth(data_type), index),
               buffer_index |-> index + 1]
         ELSE [result |-> [err |-> "unreachable"], buffer_index |-> index]
    ELSE IF data.kind = "Nullable"
    THEN BitpackedForNonNegArrayEncoder_encode_nullable(self, data, data_type, index)
    ELSE [result |-> [err |-> "InvalidInput"], buffer_index |-> index]

\* BitpackedArrayEncoder::encode with its `buffer_index: &mut u32`
BitpackedArrayEncoder_encode_block(self, data, index) ==
    LET result == BitpackedArrayEncoder_encode(self, data, index) IN
    [result |-> result,
     buffer_index |-> IF result.err = "" THEN index + 1 ELSE index]

\* element types of the blocks
ShapeTypes == {"UInt8", "Int16", "UInt32", "Int64", "Float32"}

\* values of the blocks
ShapeValues == { <<>>, <<1>>, <<1, 0, 1>> }

\* the blocks around a FixedWidth block: itself, AllNull, Nullable over it,
\* Nullable over blocks that are not FixedWidth, and other shapes
BlockShapes(unpacked) ==
    { unpacked,
      [kind |-> "AllNull", num_values |-> unpacked.num_values],
      [kind |-> "Nullable", data |-> unpacked, nulls |-> "validity"],
      [kind |-> "Nullable", nulls |-> "validity",
       data |-> [kind |-> "AllNull", num_values |-> unpacked.num_values]],
      [kind |-> "Nullable", nulls |-> "validity",
       data |-> [kind |-> "VariableWidth", num_values |-> unpacked.num_values]],
      [kind |-> "VariableWidth", num_values |-> unpacked.num_values],
      [kind |-> "Struct", num_values |-> unpacked.num_values],
      [kind |-> "Dictionary", num_values |-> unpacked.num_values] }

InitShape ==
    /\ pc = "block"
    /\ \E data_type \in ShapeTypes, values \in ShapeValues, encoder \in {"nonneg", "bits"} :
         LET W == TypeWidth(data_type)
             unpacked == IF encoder = "nonneg"
                         THEN [kind |-> "FixedWidth", data |-> values,
                               bits_per_value |-> W, num_values |-> Len(values)]
                         ELSE FixedWidthBlock(
                                  [i \in 1..Min(Len(values), 1) |-> FromBits({0}, W)], W)
         IN \E block \in BlockShapes(unpacked), b \in {1, W} :
               input = [encoder |-> encoder, data_type |-> data_type,
                        compressed_bit_width |-> b, block |-> block]
    /\ buffer_index \in {0, 3}
    /\ params = None
    /\ encoded = None
    /\ request = None
    /\ decoder = None
    /\ output = None
    /\ storage = None

\* BitpackedForNonNegArrayEncoder::encode(data, data_type, &mut buffer_index)
EncodeNonNegBlock ==
    /\ pc = "block" /\ input.encoder = "nonneg"
    /\ LET call == BitpackedForNonNegArrayEncoder_encode_block(
                       [compressed_bit_width |-> input.compressed_bit_width],
                       input.block, input.data_type, buffer_index)
       IN /\ encoded' = call.result
          /\ buffer_index' = call.buffer_index
    /\ request' = [buffer_index |-> buffer_index]
    /\ pc' = "encoded"
    /\ UNCHANGED <<input, params, decoder, output, storage>>

\* BitpackedArrayEncoder::encode(data, data_type, &mut buffer_index)
EncodeBitpackedBlock ==
    /\ pc = "block" /\ input.encoder = "bits"
    /\ LET call == BitpackedArrayEncoder_encode_block(
                       [num_bits |-> input.compressed_bit_width, signed_type |-> FALSE],
                       input.block, buffer_index)
       IN /\ encoded' = call.result
          /\ buffer_index' = call.buffer_index
    /\ request' = [buffer_index |-> buffer_index]
    /\ pc' = "encoded"
    /\ UNCHANGED <<input, params, decoder, output, storage>>

NextShape == EncodeNonNegBlock \/ EncodeBitpackedBlock

SpecShape == InitShape /\ [][NextShape]_vars

\* blocks the chunked encoder takes
SupportedShape(block) ==
    \/ block.kind \in {"FixedWidth", "AllNull"}
    \/ block.kind = "Nullable" /\ block.data.kind = "FixedWidth"

\* C23: the chunked encoder gives the InvalidInput error and no encoded array
\* for a block that is not FixedWidth, AllNull or Nullable over FixedWidth;
\* the bit-granular encoder gives it for every block that is not FixedWidth.
C23_UnsupportedBlockShape ==
    pc = "encoded" =>
       /\ (input.encoder = "nonneg" /\ ~SupportedShape(input.block)) =>
             encoded = [err |-> "InvalidInput"]
       /\ (input.encoder = "bits" /\ input.block.kind # "FixedWidth") =>
             encoded = [err |-> "InvalidInput"]
       /\ (input.encoder = "nonneg" /\ SupportedShape(input.block)) =>
             encoded.err # "InvalidInput"
       /\ (input.encoder = "bits" /\ input.block.kind = "FixedWidth") =>
             encoded.err # "InvalidInput"

\* the chunked encoder refused a Nullable block over a VariableWidth block
C23_Witness ==
    /\ pc = "encoded"
    /\ input.encoder = "nonneg"
    /\ input.block.kind = "Nullable"
    /\ input.block.data.kind = "VariableWidth"
    /\ encoded.err = "InvalidInput"

\* C30: an encode that returns an error leaves buffer_index as it was; a
\* successful one adds 1 for FixedWidth, 2 for Nullable (validity first,
\* values next) and 0 for AllNull, and the descriptor holds the index before
\* the increment.
C30_FailedEncodeKeepsIndex ==
    pc = "encoded" =>
       /\ encoded.err = "InvalidInput" => buffer_index = request.buffer_index
       /\ (encoded.err = "" /\ input.block.kind = "FixedWidth") =>
             /\ buffer_index = request.buffer_index + 1
             /\ encoded.encoding.buffer_index = request.buffer_index
       /\ (encoded.err = "" /\ input.block.kind = "Nullable") =>
             /\ buffer_index = request.buffer_index + 2
             /\ encoded.encoding.validity.buffer_index = request.buffer_index
             /\ encoded.encoding.values.buffer_index = request.buffer_index + 1
       /\ (encoded.err = "" /\ input.block.kind = "AllNull") =>
             buffer_index = request.buffer_index

(***************************************************************************)
(* PQ index: a partition of PQ codes and row IDs.  An index is made by     *)
(* PQIndex::new without codes, load() reads a page of the file into a new  *)
(* index, search() and filter_arrays() are asked of an index.  Codes are   *)
(* kept transposed: the codes of sub-vector s of all vectors lie together. *)
(***************************************************************************)
\* vectors of a page
MaxVectors == 3

\* lance_index::vector::pq::storage::transpose: from one row of
\* num_columns codes per vector to one row of num_vectors codes per sub-vector
transpose(original, num_vectors, num_columns) ==
    [k \in 1..(num_vectors * num_columns) |->
        original[((k - 1) % num_vectors) * num_columns + ((k - 1) \div num_vectors) + 1]]

\* arrow_select::take::take
Take(values, indices) == [j \in 1..Len(indices) |-> values[indices[j] + 1]]

\* PQIndex::get_pq_codes
get_pq_codes(transposed_codes, vec_idx, num_vectors) ==
    [j \in 1..(Len(transposed_codes) \div num_vectors) |->
        transposed_codes[vec_idx + (j - 1) * num_vectors + 1]]

\* PreFilter::filter_row_ids: the selection vector of a pre-filter, the
\* indices of the row IDs it keeps
filter_row_ids(pre_filter, row_ids) ==
    LET RECURSIVE Kept(_)
        Kept(i) == IF i > Len(row_ids) THEN <<>>
                   ELSE (IF row_ids[i] \in pre_filter.allowed THEN <<i - 1>> ELSE <<>>)
                        \o Kept(i + 1)
        selected == Kept(1)
    IN IF pre_filter.reversed
       THEN [j \in 1..Len(selected) |-> selected[Len(selected) + 1 - j]]
       ELSE selected

\* filter_arrays that keeps the codes of the first sub-vector row only
filter_arrays_first_row(pre_filter, code, row_ids, num_sub_vectors) ==
    LET num_vectors == Len(row_ids) IN
    IF num_vectors = 0
    THEN [err |-> "", code |-> code, row_ids |-> row_ids, consulted |-> FALSE]
    ELSE LET indices_to_keep == filter_row_ids(pre_filter, row_ids)
         IN [err |-> "",
             code |-> [k \in 1..Len(indices_to_keep) |-> code[indices_to_keep[k] + 1]],
             row_ids |-> Take(row_ids, indices_to_keep),
             consulted |-> TRUE]

\* PQIndex::filter_arrays; consulted tells whether the filter was asked
filter_arrays(pre_filter, code, row_ids, num_sub_vectors) ==
    LET num_vectors == Len(row_ids) IN
    IF num_vectors = 0
    THEN [err |-> "", code |-> code, row_ids |-> row_ids, consulted |-> FALSE]
    ELSE LET indices_to_keep == filter_row_ids(pre_filter, row_ids)
             kept == Len(indices_to_keep)
             rows == Len(code) \div num_vectors
         IN [err |-> "",
             code |-> [k \in 1..(rows * kept) |->
                          code[((k - 1) \div kept) * num_vectors
                               + indices_to_keep[((k - 1) % kept) + 1] + 1]],
             row_ids |-> Take(row_ids, indices_to_keep),
             consulted |-> TRUE]

\* ProductQuantizer::compute_distances: one distance per vector, from the
\* codes of its sub-vectors and the key
compute_distances(key, code, num_sub_vectors) ==
    LET num_vectors == Len(code) \div num_sub_vectors
        RECURSIVE Dist(_, _)
        Dist(v, s) == IF s > num_sub_vectors THEN 0
                      ELSE LET c == code[(s - 1) * num_vectors + v]
                           IN (IF c >= key THEN c - key ELSE key - c) + Dist(v, s + 1)
    IN [v \in 1..num_vectors |-> Dist(v, 1)]

\* arrow_ord::sort::sort_to_indices, ascending, ties by index
RECURSIVE SortedFrom(_, _)
SortedFrom(values, left) ==
    IF left = {} THEN <<>>
    ELSE LET first == CHOOSE i \in left :
                         \A j \in left : values[i] < values[j]
                                         \/ (values[i] = values[j] /\ i <= j)
         IN <<first - 1>> \o SortedFrom(values, left \ {first})

sort_to_indices(values, limit) ==
    LET all == SortedFrom(values, 1..Len(values)) IN
    IF limit.some THEN SubSeq(all, 1, Min(limit.value, Len(all))) ELSE all

\* the loop of lines 265-281 over the sorted indices
RECURSIVE TakeWithinBounds(_, _, _, _, _, _, _)
TakeWithinBounds(indices, i, distances, row_ids, query, limit, acc) ==
    IF i > Len(indices) THEN acc
    ELSE LET dist == distances[indices[i] + 1]
             id == row_ids[indices[i] + 1]
         IN IF query.lower_bound.some /\ dist < query.lower_bound.value
            THEN TakeWithinBounds(indices, i + 1, distances, row_ids, query, limit, acc)
            ELSE IF query.upper_bound.some /\ dist >= query.upper_bound.value THEN acc
            ELSE LET next == [dists |-> Append(acc.dists, dist),
                              ids |-> Append(acc.ids, id)]
                 IN IF Len(next.dists) >= limit THEN next
                    ELSE TakeWithinBounds(indices, i + 1, distances, row_ids, query,
                                          limit, next)

\* search with the test of line 224 asking for both to be missing
PQIndex_search_either_loaded(self, query, pre_filter) ==
    IF self.code = None /\ self.row_ids = None
    THEN [err |-> "Index", events |-> <<>>, dists |-> <<>>, ids |-> <<>>]
    ELSE [err |-> "", events |-> <<"wait_for_ready", "record_comparisons">>,
          dists |-> <<>>, ids |-> <<>>]

\* PQIndex::search; events lists the collaborators' calls in their order
PQIndex_search(self, query, pre_filter) ==
    IF self.code = None \/ self.row_ids = None
    THEN [err |-> "Index", events |-> <<>>, dists |-> <<>>, ids |-> <<>>]
    ELSE IF pre_filter.ready_err # ""
    THEN [err |-> pre_filter.ready_err, events |-> <<"wait_for_ready">>,
          dists |-> <<>>, ids |-> <<>>]
    ELSE
    LET filtered == IF pre_filter.is_empty
                    THEN [err |-> "", code |-> self.code.values,
                          row_ids |-> self.row_ids.values, consulted |-> FALSE]
                    ELSE filter_arrays(pre_filter, self.code.values, self.row_ids.values,
                                       self.pq.num_sub_vectors)
        distances == compute_distances(query.key, filtered.code, self.pq.num_sub_vectors)
        limit == query.k * (IF query.refine_factor.some THEN query.refine_factor.value
                            ELSE 1)
        events == <<"wait_for_ready", "record_comparisons">>
                  \o (IF filtered.consulted THEN <<"filter_row_ids">> ELSE <<>>)
                  \o <<"compute_distances">>
    IN IF ~query.lower_bound.some /\ ~query.upper_bound.some
       THEN LET indices == sort_to_indices(distances, [some |-> TRUE, value |-> limit])
            IN [err |-> "", events |-> events,
                dists |-> Take(distances, indices),
                ids |-> Take(filtered.row_ids, indices)]
       ELSE LET indices == sort_to_indices(distances, [some |-> FALSE])
                taken == TakeWithinBounds(indices, 1, distances, filtered.row_ids, query,
                                          limit, [dists |-> <<>>, ids |-> <<>>])
            IN [err |-> "", events |-> events, dists |-> taken.dists, ids |-> taken.ids]

\* FragReuseIndex::remap_row_id: a row that was dropped has no new row ID
remap_row_id(frag_reuse_index, old_row_id) ==
    IF old_row_id \in frag_reuse_index.dropped THEN [some |-> FALSE]
    ELSE [some |-> TRUE, value |-> old_row_id + frag_reuse_index.shift]

\* PQIndex::load; page holds what the two reads of the file give
PQIndex_load(self, page) ==
    IF page.err # "" THEN [err |-> page.err]
    ELSE
    LET length == Len(page.row_ids)
        pq_codes == transpose(page.pq_codes, length, self.pq.num_sub_vectors)
        kept == IF self.frag_reuse_index.some
                THEN SelectSeq([i \in 1..length |-> i],
                               LAMBDA i : remap_row_id(self.frag_reuse_index,
                                                       page.row_ids[i]).some)
                ELSE [i \in 1..length |-> i]
        remapped_row_ids ==
            [j \in 1..Len(kept) |->
                IF self.frag_reuse_index.some
                THEN remap_row_id(self.frag_reuse_index, page.row_ids[kept[j]]).value
                ELSE page.row_ids[kept[j]]]
        remapped_pq_codes ==
            [k \in 1..(Len(kept) * self.pq.num_sub_vectors) |->
                get_pq_codes(pq_codes, kept[((k - 1) \div self.pq.num_sub_vectors) + 1] - 1,
                             length)[((k - 1) % self.pq.num_sub_vectors) + 1]]
    IN [err |-> "",
        index |-> [self EXCEPT
                     !.code = [values |->
                                  IF self.frag_reuse_index.some
                                  THEN transpose(remapped_pq_codes, Len(kept),
                                                 self.pq.num_sub_vectors)
                                  ELSE pq_codes],
                     !.row_ids = [values |-> remapped_row_ids]]]

\* the code of sub-vector s of the vector with a row ID
PQCodeByte(id, s) == (id * 3 + s * 7) % 256

\* the page of the file: one row of codes per vector, then the row IDs
PQPage(length, num_sub_vectors) ==
    [err |-> "",
     pq_codes |-> [k \in 1..(length * num_sub_vectors) |->
                      PQCodeByte(10 * (((k - 1) \div num_sub_vectors) + 1),
                                 (k - 1) % num_sub_vectors)],
     row_ids |-> [i \in 1..length |-> 10 * i]]

FragReuseIndexes ==
    { [some |-> FALSE],
      [some |-> TRUE, dropped |-> {}, shift |-> 1000],
      [some |-> TRUE, dropped |-> {10, 30}, shift |-> 1000] }

PreFilters ==
    { [ready_err |-> e, is_empty |-> FALSE, allowed |-> a, reversed |-> r] :
        e \in {"", "io: prefilter"}, r \in BOOLEAN,
        a \in { {}, {20, 1020}, {10, 30, 1010, 1030}, {10, 20, 30, 1010, 1020, 1030} } }
    \cup { [ready_err |-> "", is_empty |-> TRUE, allowed |-> {}, reversed |-> FALSE] }

Queries ==
    { [key |-> 40, k |-> 1, refine_factor |-> [some |-> TRUE, value |-> 2],
       lower_bound |-> [some |-> FALSE], upper_bound |-> [some |-> FALSE]],
      [key |-> 40, k |-> 2, refine_factor |-> [some |-> FALSE],
       lower_bound |-> [some |-> TRUE, value |-> 10],
       upper_bound |-> [some |-> TRUE, value |-> 60]] }

\* PQIndex::new
InitPQ ==
    /\ pc = "index"
    /\ \E num_sub_vectors \in {1, 2}, frag_reuse_index \in FragReuseIndexes :
          storage = [code |-> None, row_ids |-> None,
                     pq |-> [num_sub_vectors |-> num_sub_vectors],
                     frag_reuse_index |-> frag_reuse_index]
    /\ \E length \in 0..MaxVectors, err \in {"", "io: read"} :
          input = [page |-> [PQPage(length, storage.pq.num_sub_vectors)
                               EXCEPT !.err = err]]
    /\ params = None
    /\ encoded = None
    /\ buffer_index = 0
    /\ request = None
    /\ decoder = None
    /\ output = None

\* PQIndex::load: the caller goes on with the index it returns
LoadPQ ==
    /\ pc = "index"
    /\ LET loaded == PQIndex_load(storage, input.page)
       IN /\ output' = [op |-> "load", err |-> loaded.err]
          /\ storage' = IF loaded.err = "" THEN loaded.index ELSE storage
          /\ pc' = IF loaded.err = "" THEN "loaded" ELSE "unloaded"
    /\ request' = [op |-> "load"]
    /\ UNCHANGED <<input, params, encoded, buffer_index, decoder>>

\* one of the pub fields code and row_ids set on an index made by new
SetOneField ==
    /\ pc = "index"
    /\ input.page.err = ""
    /\ \/ storage' = [storage EXCEPT !.code =
                         [values |-> transpose(input.page.pq_codes,
                                               Len(input.page.row_ids),
                                               storage.pq.num_sub_vectors)]]
       \/ storage' = [storage EXCEPT !.row_ids = [values |-> input.page.row_ids]]
    /\ request' = [op |-> "set"]
    /\ pc' = "partial"
    /\ UNCHANGED <<input, params, encoded, buffer_index, decoder, output>>

\* PQIndex::search
SearchPQ ==
    /\ pc \in {"index", "partial", "unloaded", "loaded"}
    /\ \E query \in Queries, pre_filter \in PreFilters :
          /\ request' = [op |-> "search", query |-> query, pre_filter |-> pre_filter,
                         from |-> pc]
          /\ output' = PQIndex_search(storage, query, pre_filter)
    /\ pc' = "searched"
    /\ UNCHANGED <<input, params, encoded, buffer_index, decoder, storage>>

\* PQIndex::filter_arrays on the arrays of a loaded index
FilterArraysPQ ==
    /\ pc = "loaded"
    /\ \E pre_filter \in PreFilters :
          /\ request' = [op |-> "filter_arrays", pre_filter |-> pre_filter]
          /\ output' = filter_arrays(pre_filter, storage.code.values,
                                     storage.row_ids.values, storage.pq.num_sub_vectors)
    /\ pc' = "filtered"
    /\ UNCHANGED <<input, params, encoded, buffer_index, decoder, storage>>

NextPQ == LoadPQ \/ SetOneField \/ SearchPQ \/ FilterArraysPQ

SpecPQ == InitPQ /\ [][NextPQ]_vars

\* C24: search gives the Index error when code or row_ids is missing, before
\* it waits for the pre-filter, records metrics or computes a distance; on
\* an index returned by load both are set and search does not give it.
C24_UninitializedIndex ==
    /\ pc = "loaded" => (storage.code # None /\ storage.row_ids # None)
    /\ pc = "searched" =>
          /\ (storage.code = None \/ storage.row_ids = None) =>
                (output.err = "Index" /\ output.events = <<>>
                 /\ output.dists = <<>> /\ output.ids = <<>>)
          /\ request.from = "loaded" => output.err # "Index"

\* an index with codes and no row IDs was searched with a pre-filter that
\* fails when waited for
C24_Witness ==
    /\ pc = "searched"
    /\ storage.code # None /\ storage.row_ids = None
    /\ request.pre_filter.ready_err # ""
    /\ output.err = "Index"

\* C25: filter_arrays on no row IDs returns the two arrays as they are, both
\* empty, without asking the filter; on row IDs with kept indices K it
\* returns the row IDs at K in K's order and, for each sub-vector row, the
\* codes at K, so each kept vector keeps its codes.
C25_FilterKeepsAlignment ==
    pc = "filtered" =>
       LET code == storage.code.values
           row_ids == storage.row_ids.values
           num_vectors == Len(row_ids)
           K == filter_row_ids(request.pre_filter, row_ids)
       IN /\ output.err = ""
          /\ IF num_vectors = 0
             THEN /\ output.code = code /\ output.row_ids = row_ids
                  /\ output.code = <<>> /\ output.row_ids = <<>>
                  /\ ~output.consulted
             ELSE /\ output.row_ids = [j \in 1..Len(K) |-> row_ids[K[j] + 1]]
                  /\ Len(output.code) = (Len(code) \div num_vectors) * Len(K)
                  /\ \A r \in 0..((Len(code) \div num_vectors) - 1) :
                        \A j \in 1..Len(K) :
                           output.code[r * Len(K) + j] = code[r * num_vectors + K[j] + 1]
                  /\ \A j \in 1..Len(K) :
                        get_pq_codes(output.code, j - 1, Len(K))
                           = get_pq_codes(code, K[j], num_vectors)

\* two of three vectors with two sub-vectors each were kept, last first
C25_Witness ==
    /\ pc = "filtered"
    /\ Len(storage.row_ids.values) = 3
    /\ storage.pq.num_sub_vectors = 2
    /\ Len(output.row_ids) = 2
    /\ output.row_ids[1] > output.row_ids[2]
    /\ Len(output.code) = 4

(***************************************************************************)
(* Claims about the analyzers.                                             *)
(***************************************************************************)
Analyzed == pc = "analyzed"

HasNonNull(arr) == \E i \in 1..Len(arr.values) : arr.values[i] # Null

HasNegative(arr) ==
    \E i \in 1..Len(arr.values) :
       arr.values[i] # Null /\ IsNegative(arr.values[i], arr.W)

\* v < 2^b for the W-bit unsigned value v: no bit at or above b is set
FitsUnsigned(v, b, W) == \A i \in b..(W - 1) : BitOf(v, i) = 0

\* -2^(b-1) <= v < 2^(b-1) for the W-bit two's complement value v: every
\* bit from b - 1 up repeats the sign bit
FitsSigned(v, b, W) == \A i \in (b - 1)..(W - 1) : BitOf(v, i) = BitOf(v, W - 1)

AllFitUnsigned(arr, b) ==
    \A i \in 1..Len(arr.values) :
       arr.values[i] # Null => FitsUnsigned(arr.values[i], b, arr.W)

AllFitSigned(arr, b) ==
    \A i \in 1..Len(arr.values) :
       arr.values[i] # Null => FitsSigned(arr.values[i], b, arr.W)

\* the smallest b >= 1 with every non-null value < 2^b
MinUnsignedWidth(arr) ==
    CHOOSE b \in 1..arr.W :
       AllFitUnsigned(arr, b) /\ \A c \in 1..(b - 1) : ~AllFitUnsigned(arr, c)

\* C7: on an unsigned array bitpack_params returns None when there is no
\* non-null value, and otherwise signed = false with num_bits the smallest
\* b >= 1 such that every non-null value is below 2^b.
C7_UnsignedWidth ==
    (Analyzed /\ ~input.signed_type) =>
       IF HasNonNull(input)
       THEN params = [num_bits |-> MinUnsignedWidth(input), signed |-> FALSE]
       ELSE params = None

C7_Witness ==
    /\ Analyzed /\ ~input.signed_type /\ Len(input.values) >= 2
    /\ \E i \in 1..Len(input.values) : input.values[i] = Null
    /\ params # None /\ params.num_bits = input.W \div 2 + 1

\* C8 as stated: a signed array with a negative non-null value gets
\* signed = true and num_bits >= 2.
C8_Original ==
    (Analyzed /\ input.signed_type /\ HasNegative(input)) =>
       (params # None /\ params.signed /\ params.num_bits >= 2)

\* every non-null value is 0 or -1
OnlyZeroOrMinusOne(arr) ==
    \A i \in 1..Len(arr.values) :
       arr.values[i] # Null =>
          arr.values[i] \in {FromBits({}, arr.W), FromBits(0..(arr.W - 1), arr.W)}

\* C8 amended: a signed array with a negative non-null value gets
\* signed = true and num_bits >= 2, except that num_bits is 1 when every
\* non-null value is -1 or 0.
C8_SignedWithNegatives ==
    (Analyzed /\ input.signed_type /\ HasNegative(input)) =>
       /\ params # None /\ params.signed
       /\ IF OnlyZeroOrMinusOne(input) THEN params.num_bits = 1
          ELSE params.num_bits >= 2

C8_Witness ==
    /\ Analyzed /\ input.signed_type /\ HasNegative(input)
    /\ ~OnlyZeroOrMinusOne(input)
    /\ params # None /\ params.num_bits = 2

\* C9: on a signed-typed array without negative values bitpack_params gives
\* signed = false and the num_bits the unsigned analyzer gives for the same
\* values.
C9_SignedTypeNoNegatives ==
    (Analyzed /\ input.signed_type /\ ~HasNegative(input)) =>
       /\ params = bitpack_params_for_type(input)
       /\ HasNonNull(input) =>
             /\ params # None /\ ~params.signed
             /\ params.num_bits = MinUnsignedWidth(input)

C9_Witness ==
    /\ Analyzed /\ input.signed_type /\ ~HasNegative(input)
    /\ params # None /\ params.num_bits = input.W - 1

\* C10: on a signed array with a negative value, 1 <= num_bits <= W, every
\* non-null value lies in -2^(num_bits-1) .. 2^(num_bits-1) - 1, and no
\* smaller width has room for all of them.
C10_SignedWidthMinimal ==
    (Analyzed /\ input.signed_type /\ HasNegative(input)) =>
       /\ params # None
       /\ params.num_bits \in 1..input.W
       /\ AllFitSigned(input, params.num_bits)
       /\ \A c \in 1..(params.num_bits - 1) : ~AllFitSigned(input, c)

C10_Witness ==
    /\ Analyzed /\ input.signed_type /\ HasNegative(input)
    /\ \E i \in 1..Len(input.values) :
          input.values[i] # Null /\ ~IsNegative(input.values[i], input.W)
    /\ params # None /\ params.num_bits = input.W \div 2 + 2

\* every non-null value of every array is below 2^b
AllArraysFit(arrays, b) ==
    \A i \in 1..Len(arrays) : \A j \in 1..Len(arrays[i].values) :
       arrays[i].values[j] # Null => FitsUnsigned(arrays[i].values[j], b, arrays[i].W)

\* C29: compute_compressed_bit_width_for_non_neg over one or more arrays of
\* one integer type returns b with 1 <= b <= W such that every non-null value
\* of every array, read as an unsigned W-bit integer, is below 2^b, and no
\* smaller width of at least 1 has that property (1 when every value is zero
\* or null).
C29_NonNegWidth ==
    pc = "analyzed" =>
       LET b == params.compressed_bit_width IN
       /\ 1 <= b /\ b <= input.W
       /\ AllArraysFit(input.arrays, b)
       /\ \A c \in 1..(b - 1) : ~AllArraysFit(input.arrays, c)

\* the widest value sits in the second array, behind a null
C29_Witness ==
    /\ pc = "analyzed"
    /\ Len(input.arrays) = 2
    /\ input.arrays[1].values = << FromBits(0..2, input.W) >>
    /\ input.arrays[2].values = << Null, FromBits({input.W \div 2}, input.W) >>
    /\ params.compressed_bit_width = input.W \div 2 + 1

====
